---- MODULE Spec2Model ----
(***************************************************************************)
(* Iron Vault mechanics notation: the inline parser (parseInlineMechanic), *)
(* the block parser (parseIronVaultBlock) and their helpers.               *)
(*                                                                         *)
(* A JavaScript string is a sequence of one-character strings.  An HTML    *)
(* result is a sequence of tokens: every character that comes from the     *)
(* authoring text (or from a formatted number) is a one-character token,   *)
(* every piece of markup the parser itself writes in a template literal is *)
(* one multi-character token, kept whole.                                  *)
(*                                                                         *)
(* The parsers are pure functions.  Each specification draws an input in   *)
(* its initial state and has one action per entry point that applies it:   *)
(*   fn  - the function that has been applied ("" before the call)         *)
(*   arg - the input                                                       *)
(*   ret - the value returned                                              *)
(***************************************************************************)
EXTENDS Integers, Sequences, FiniteSets, TLC

VARIABLES fn, arg, ret

vars == <<fn, arg, ret>>

(***************************************************************************)
(* Bounds of the model.                                                    *)
(***************************************************************************)
\* getOutcome is checked for score, vs1, vs2 in -MaxDie..MaxDie
MaxDie == 4
\* escapeHtml is checked for every string over EscAlphabet of at most this length
MaxEscLen == 4
\* pathToSlug is checked for every string over SlugAlphabet of at most this length
MaxSlugLen == 4

(***************************************************************************)
(* JavaScript string primitives.                                           *)
(***************************************************************************)
StrUpTo(A, n) == UNION {[1..k -> A] : k \in 0..n}

startsWith(s, p) == Len(s) >= Len(p) /\ SubSeq(s, 1, Len(p)) = p

endsWith(s, p) == Len(s) >= Len(p) /\ SubSeq(s, Len(s) - Len(p) + 1, Len(s)) = p

\* String.prototype.indexOf for a one-character needle, 1-based; 0 is JavaScript's -1
indexFrom(s, c, i) ==
    LET hits == {j \in i..Len(s) : s[j] = c}
    IN  IF hits = {} THEN 0 ELSE CHOOSE j \in hits : \A k \in hits : j <= k

indexOf(s, c) == indexFrom(s, c, 1)

\* String.prototype.lastIndexOf, 1-based; 0 is JavaScript's -1
lastIndexFrom(s, c, i) ==
    LET hits == {j \in 1..i : s[j] = c}
    IN  IF hits = {} THEN 0 ELSE CHOOSE j \in hits : \A k \in hits : j >= k

lastIndexOf(s, c) == lastIndexFrom(s, c, Len(s))

\* s.replace(/c/g, r): every occurrence of the character c becomes the string r
RECURSIVE replaceAll(_, _, _)
replaceAll(s, c, r) ==
    IF s = <<>> THEN <<>>
    ELSE (IF Head(s) = c THEN r ELSE <<Head(s)>>) \o replaceAll(Tail(s), c, r)

\* s.replace(/\\\//g, '/'): every backslash-slash pair becomes a slash
RECURSIVE unescapeSlashes(_)
unescapeSlashes(s) ==
    IF Len(s) < 2 THEN s
    ELSE IF s[1] = "\\" /\ s[2] = "/" THEN <<"/">> \o unescapeSlashes(SubSeq(s, 3, Len(s)))
    ELSE <<s[1]>> \o unescapeSlashes(Tail(s))

\* s.split(c) for a one-character separator: never empty, '' splits to ['']
RECURSIVE split(_, _)
split(s, c) ==
    LET i == indexOf(s, c)
    IN  IF i = 0 THEN <<s>>
        ELSE <<SubSeq(s, 1, i - 1)>> \o split(SubSeq(s, i + 1, Len(s)), c)

\* parts.join(sep)
RECURSIVE join(_, _)
join(parts, sep) ==
    IF parts = <<>> THEN <<>>
    ELSE IF Len(parts) = 1 THEN parts[1]
    ELSE parts[1] \o sep \o join(Tail(parts), sep)

\* results.join(''): the concatenation of a sequence of strings
RECURSIVE concat(_)
concat(parts) ==
    IF parts = <<>> THEN <<>> ELSE Head(parts) \o concat(Tail(parts))

\* the characters the regular expression class \s and String.prototype.trim take as blank
isSpace(c) == c \in {" ", "\t", "\n", "\r"}

RECURSIVE trimStart(_)
trimStart(s) ==
    IF s # <<>> /\ isSpace(Head(s)) THEN trimStart(Tail(s)) ELSE s

RECURSIVE trimEnd(_)
trimEnd(s) ==
    IF s # <<>> /\ isSpace(s[Len(s)]) THEN trimEnd(SubSeq(s, 1, Len(s) - 1)) ELSE s

trim(s) == trimEnd(trimStart(s))

UpperCase == <<"A","B","C","D","E","F","G","H","I","J","K","L","M",
               "N","O","P","Q","R","S","T","U","V","W","X","Y","Z">>

LowerCase == <<"a","b","c","d","e","f","g","h","i","j","k","l","m",
               "n","o","p","q","r","s","t","u","v","w","x","y","z">>

lowerChar(c) ==
    IF \E i \in 1..Len(UpperCase) : UpperCase[i] = c
    THEN LowerCase[CHOOSE i \in 1..Len(UpperCase) : UpperCase[i] = c]
    ELSE c

toLowerCase(s) == [i \in 1..Len(s) |-> lowerChar(s[i])]

\* s.replace(/\s+/g, '-'): every maximal run of blanks becomes one hyphen
RECURSIVE spacesToHyphen(_)
spacesToHyphen(s) ==
    IF s = <<>> THEN <<>>
    ELSE IF isSpace(Head(s)) THEN <<"-">> \o spacesToHyphen(trimStart(s))
    ELSE <<Head(s)>> \o spacesToHyphen(Tail(s))

\* s.replace(/\.md$/, '')
stripMd(s) ==
    IF endsWith(s, <<".", "m", "d">>) THEN SubSeq(s, 1, Len(s) - 3) ELSE s

\* s.replace(/^\/+/, '')
RECURSIVE stripLeadingSlashes(_)
stripLeadingSlashes(s) ==
    IF s # <<>> /\ Head(s) = "/" THEN stripLeadingSlashes(Tail(s)) ELSE s

Digits == <<"0", "1", "2", "3", "4", "5", "6", "7", "8", "9">>

isDigit(c) == \E i \in 1..10 : Digits[i] = c

digitValue(c) == (CHOOSE i \in 1..10 : Digits[i] = c) - 1

\* `${n}` for an integer n: its decimal digits, a minus sign first when negative
RECURSIVE natToStr(_)
natToStr(n) ==
    IF n < 10 THEN <<Digits[n + 1]>>
    ELSE natToStr(n \div 10) \o <<Digits[(n % 10) + 1]>>

numToStr(n) == IF n < 0 THEN <<"-">> \o natToStr(-n) ELSE natToStr(n)

\* the value of the longest prefix of s made of decimal digits, with its length
RECURSIVE digitPrefix(_, _, _)
digitPrefix(s, acc, len) ==
    IF s # <<>> /\ isDigit(Head(s))
    THEN digitPrefix(Tail(s), acc * 10 + digitValue(Head(s)), len + 1)
    ELSE [n |-> acc, len |-> len]

NaN == [nan |-> TRUE, n |-> 0]

\* parseInt(s) without a radix, for input that carries no 0x prefix: leading blanks
\* are skipped, a sign is read, then decimal digits up to the first other character
parseInt(s) ==
    LET t    == trimStart(s)
        neg  == t # <<>> /\ Head(t) = "-"
        body == IF t # <<>> /\ Head(t) \in {"-", "+"} THEN Tail(t) ELSE t
        d    == digitPrefix(body, 0, 0)
    IN  IF d.len = 0 THEN NaN
        ELSE [nan |-> FALSE, n |-> IF neg THEN -d.n ELSE d.n]

(***************************************************************************)
(* Outcome engine and the two escape / slug helpers of each parser.        *)
(***************************************************************************)
getOutcomeGeq(score, vs1, vs2) ==
    IF score >= vs1 /\ score >= vs2 THEN "strong-hit"
    ELSE IF score >= vs1 \/ score >= vs2 THEN "weak-hit"
    ELSE "miss"

\* getOutcome of the inline parser
getOutcomeInline(score, vs1, vs2) ==
    IF score > vs1 /\ score > vs2 THEN "strong-hit"
    ELSE IF score > vs1 \/ score > vs2 THEN "weak-hit"
    ELSE "miss"

\* getOutcome of the block parser
getOutcomeBlock(score, vs1, vs2) ==
    IF score > vs1 /\ score > vs2 THEN "strong-hit"
    ELSE IF score > vs1 \/ score > vs2 THEN "weak-hit"
    ELSE "miss"

isMatch(vs1, vs2) == vs1 = vs2

Amp == <<"&", "a", "m", "p", ";">>
Lt == <<"&", "l", "t", ";">>
Gt == <<"&", "g", "t", ";">>
Quot == <<"&", "q", "u", "o", "t", ";">>

escapeHtmlNoQuote(text) ==
    replaceAll(replaceAll(replaceAll(text, "&", Amp), "<", Lt), ">", Gt)

\* escapeHtml of the inline parser
escapeHtmlInline(text) ==
    replaceAll(replaceAll(replaceAll(replaceAll(text, "&", Amp), "<", Lt), ">", Gt), "\"", Quot)

\* escapeHtml of the block parser: the escaped path separators are unescaped first
escapeHtml(text) ==
    replaceAll(replaceAll(replaceAll(replaceAll(unescapeSlashes(text),
        "&", Amp), "<", Lt), ">", Gt), "\"", Quot)

Hash == <<"#">>

removeParens(s) == replaceAll(replaceAll(s, "(", <<>>), ")", <<>>)

removeApostrophes(s) == replaceAll(s, "'", <<>>)

\* pathToSlug of the inline parser
pathToSlugInline(path) ==
    IF path = <<>> THEN Hash
    ELSE removeApostrophes(removeParens(spacesToHyphen(toLowerCase(stripMd(path)))))

pathToSlugKeepSlashes(path) ==
    IF path = <<>> THEN Hash
    ELSE <<"/">> \o removeApostrophes(removeParens(spacesToHyphen(
             toLowerCase(stripMd(unescapeSlashes(path))))))

\* pathToSlug of the block parser
pathToSlug(path) ==
    IF path = <<>> THEN Hash
    ELSE <<"/">> \o stripLeadingSlashes(removeApostrophes(removeParens(spacesToHyphen(
             toLowerCase(stripMd(unescapeSlashes(path)))))))

(***************************************************************************)
(* The inline parser.  filesByName is [defined |-> BOOLEAN, map |-> f]     *)
(* with f a function from a lookup key to the slug of the FileInfo stored  *)
(* under it; NoFiles is the call without a table.                          *)
(***************************************************************************)
NoFiles == [defined |-> FALSE, map |-> <<>>]

ICONS == [sparkles |-> "<svg sparkles>", squareStack |-> "<svg square-stack>",
          copyCheck |-> "<svg copy-check>", squareCheckBig |-> "<svg square-check-big>",
          filePlus |-> "<svg file-plus>", filePenLine |-> "<svg file-pen-line>",
          clock |-> "<svg clock>", clockArrowUp |-> "<svg clock-arrow-up>",
          circleCheckBig |-> "<svg circle-check-big>", trendingUp |-> "<svg trending-up>",
          trendingDown |-> "<svg trending-down>", flame |-> "<svg flame>",
          footprints |-> "<svg footprints>", dices |-> "<svg dices>",
          messageCircle |-> "<svg message-circle>"]

SpanEnd == "</span>"

\* the arrow the change renderers write between two values
Arrow == " -> "

\* parts[i] || dflt for a string field: a missing and an empty field give dflt
\* (i is the 1-based position of the JavaScript index i - 1)
partOr(parts, i, dflt) ==
    IF i <= Len(parts) /\ parts[i] # <<>> THEN parts[i] ELSE dflt

intOrKeepsZero(parts, i, dflt) ==
    LET v == IF i <= Len(parts) THEN parseInt(parts[i]) ELSE NaN
    IN  IF v.nan THEN dflt ELSE v.n

\* parseInt(parts[i]) || dflt: a missing field, NaN and 0 give dflt
intOr(parts, i, dflt) ==
    LET v == IF i <= Len(parts) THEN parseInt(parts[i]) ELSE NaN
    IN  IF v.nan \/ v.n = 0 THEN dflt ELSE v.n

min(a, b) == IF a < b THEN a ELSE b

\* Math.floor(a / 4)
floorDiv4(a) == a \div 4

\* the text after the last / or \ of s: s.split(/[/\\]/).pop()
RECURSIVE lastSegment(_)
lastSegment(s) ==
    IF \E i \in 1..Len(s) : s[i] \in {"/", "\\"}
    THEN lastSegment(Tail(s))
    ELSE s

\* a resolver that consults the table for bare filenames only
resolveBareOnly(path, filesByName) ==
    IF path = <<>> THEN Hash
    ELSE LET lookupKey == toLowerCase(stripMd(path))
         IN  IF filesByName.defined /\ lookupKey \in DOMAIN filesByName.map
             THEN filesByName.map[lookupKey]
             ELSE pathToSlugInline(path)

resolvePathToSlug(path, filesByName) ==
    IF path = <<>> THEN Hash
    ELSE LET lookupKey == toLowerCase(lastSegment(stripMd(path)))
         IN  IF filesByName.defined /\ lookupKey \in DOMAIN filesByName.map
             THEN filesByName.map[lookupKey]
             ELSE pathToSlugInline(path)

\* `<span class="${classes.join(' ')}">` for the outcome renderers
outcomeClasses(outcome, match) ==
    <<"<span class=\"", "iv-inline-mechanics", " ", outcome>>
        \o (IF match THEN <<" ", "match">> ELSE <<>>) \o <<"\">">>

matchSpan(match) ==
    IF match THEN <<"<span class=\"iv-inline-match\">match</span>">> ELSE <<>>

renderMoveNoCap(content) ==
    LET parts     == split(content, "|")
        name      == partOr(parts, 1, <<>>)
        stat      == partOr(parts, 2, <<>>)
        action    == intOr(parts, 3, 0)
        statValue == intOr(parts, 4, 0)
        adds      == intOr(parts, 5, 0)
        vs1       == intOr(parts, 6, 0)
        vs2       == intOr(parts, 7, 0)
        score     == action + statValue + adds
        outcome   == getOutcomeInline(score, vs1, vs2)
        match     == isMatch(vs1, vs2)
    IN  outcomeClasses(outcome, match)
        \o <<"<span class=\"iv-inline-outcome-icon\"></span>">>
        \o <<"<span class=\"iv-inline-move-name iv-inline-link\">">>
        \o escapeHtmlInline(name) \o <<SpanEnd>>
        \o <<"<span class=\"iv-inline-stat\">(">> \o escapeHtmlInline(stat) \o <<")</span>">>
        \o <<"<span class=\"iv-inline-separator\">-</span>">>
        \o <<"<span class=\"iv-inline-score\">">> \o numToStr(score) \o <<SpanEnd>>
        \o <<"<span> vs </span>">>
        \o <<"<span class=\"iv-inline-challenge-die vs1\">">> \o numToStr(vs1) \o <<SpanEnd>>
        \o <<"<span>|</span>">>
        \o <<"<span class=\"iv-inline-challenge-die vs2\">">> \o numToStr(vs2) \o <<SpanEnd>>
        \o matchSpan(match)
        \o <<SpanEnd>>

renderMove(content) ==
    LET parts     == split(content, "|")
        name      == partOr(parts, 1, <<>>)
        stat      == partOr(parts, 2, <<>>)
        action    == intOr(parts, 3, 0)
        statValue == intOr(parts, 4, 0)
        adds      == intOr(parts, 5, 0)
        vs1       == intOr(parts, 6, 0)
        vs2       == intOr(parts, 7, 0)
        score     == min(10, action + statValue + adds)
        outcome   == getOutcomeInline(score, vs1, vs2)
        match     == isMatch(vs1, vs2)
    IN  outcomeClasses(outcome, match)
        \o <<"<span class=\"iv-inline-outcome-icon\"></span>">>
        \o <<"<span class=\"iv-inline-move-name iv-inline-link\">">>
        \o escapeHtmlInline(name) \o <<SpanEnd>>
        \o <<"<span class=\"iv-inline-stat\">(">> \o escapeHtmlInline(stat) \o <<")</span>">>
        \o <<"<span class=\"iv-inline-separator\">-</span>">>
        \o <<"<span class=\"iv-inline-score\">">> \o numToStr(score) \o <<SpanEnd>>
        \o <<"<span> vs </span>">>
        \o <<"<span class=\"iv-inline-challenge-die vs1\">">> \o numToStr(vs1) \o <<SpanEnd>>
        \o <<"<span>|</span>">>
        \o <<"<span class=\"iv-inline-challenge-die vs2\">">> \o numToStr(vs2) \o <<SpanEnd>>
        \o matchSpan(match)
        \o <<SpanEnd>>

renderOracle(content) ==
    LET parts  == split(content, "|")
        name   == partOr(parts, 1, <<>>)
        roll   == partOr(parts, 2, <<>>)
        result == partOr(parts, 3, <<>>)
    IN  <<"<span class=\"iv-inline-mechanics oracle\">">>
        \o <<"<span class=\"iv-inline-oracle-icon\">", ICONS.sparkles, SpanEnd>>
        \o <<"<span class=\"iv-inline-oracle-name iv-inline-link\">">>
        \o escapeHtmlInline(name) \o <<SpanEnd>>
        \o <<"<span>(">> \o roll \o <<")</span>">>
        \o <<"<span class=\"iv-inline-oracle-result\">">>
        \o escapeHtmlInline(result) \o <<SpanEnd>>
        \o <<SpanEnd>>

renderMeter(content) ==
    LET parts      == split(content, "|")
        name       == partOr(parts, 1, <<>>)
        fromVal    == intOr(parts, 2, 0)
        to         == intOr(parts, 3, 0)
        delta      == to - fromVal
        meterClass == IF delta > 0 THEN <<"meter-increase">>
                      ELSE IF delta < 0 THEN <<"meter-decrease">> ELSE <<>>
        icon       == IF delta >= 0 THEN ICONS.trendingUp ELSE ICONS.trendingDown
    IN  <<"<span class=\"iv-inline-mechanics ">> \o meterClass \o <<"\">">>
        \o <<"<span class=\"iv-inline-meter-icon\">", icon, SpanEnd>>
        \o <<"<span class=\"iv-inline-meter-name\">">>
        \o escapeHtmlInline(name) \o <<":</span>">>
        \o <<"<span class=\"iv-inline-meter-change\">">>
        \o numToStr(fromVal) \o <<Arrow>> \o numToStr(to) \o <<SpanEnd>>
        \o <<SpanEnd>>

renderBurn(content) ==
    LET parts   == split(content, "|")
        fromVal == intOr(parts, 1, 0)
        to      == intOr(parts, 2, 0)
    IN  <<"<span class=\"iv-inline-mechanics burn\">">>
        \o <<"<span class=\"iv-inline-burn-icon\">", ICONS.flame, SpanEnd>>
        \o <<"<span class=\"iv-inline-burn-label\">Burn:</span>">>
        \o <<"<span class=\"iv-inline-burn-change\">">>
        \o numToStr(fromVal) \o <<Arrow>> \o numToStr(to) \o <<SpanEnd>>
        \o <<SpanEnd>>

\* s.includes(w) for a string w
includes(s, w) ==
    \E i \in 1..(Len(s) - Len(w) + 1) : SubSeq(s, i, i + Len(w) - 1) = w

renderInitiative(content) ==
    LET parts     == split(content, "|")
        from      == partOr(parts, 1, <<>>)
        to        == partOr(parts, 2, partOr(parts, 1, <<>>))
        toLower   == toLowerCase(to)
        initClass ==
            IF \/ includes(toLower, <<"c","o","n","t","r","o","l">>)
               \/ includes(toLower, <<"i","n","i","t","i","a","t","i","v","e">>)
            THEN "initiative-in-control"
            ELSE IF includes(toLower, <<"b","a","d">>) \/ includes(toLower, <<"n","o">>)
            THEN "initiative-bad-spot"
            ELSE IF includes(toLower, <<"o","u","t">>)
            THEN "initiative-out-of-combat"
            ELSE "initiative"
    IN  <<"<span class=\"iv-inline-mechanics ", initClass, "\">">>
        \o <<"<span class=\"iv-inline-initiative-icon\">", ICONS.footprints, SpanEnd>>
        \o <<"<span class=\"iv-inline-initiative-label\">Position:</span>">>
        \o <<"<span class=\"iv-inline-initiative-change\">">>
        \o escapeHtmlInline(from) \o <<Arrow>> \o escapeHtmlInline(to) \o <<SpanEnd>>
        \o <<SpanEnd>>

\* `<a href="/${slug}" class="...">${escapeHtml(name)}</a>`
link(slug, class, name) ==
    <<"<a href=\"", "/">> \o slug \o <<"\" class=\"", class, "\">">>
        \o escapeHtmlInline(name) \o <<"</a>">>

renderTrackCreate(content, filesByName) ==
    LET parts == split(content, "|")
        name  == partOr(parts, 1, <<>>)
        path  == partOr(parts, 2, <<>>)
        slug  == resolvePathToSlug(path, filesByName)
    IN  <<"<span class=\"iv-inline-mechanics track-create\">">>
        \o <<"<span class=\"iv-inline-track-icon\">", ICONS.squareStack, SpanEnd>>
        \o link(slug, "iv-inline-track-name iv-inline-link", name)
        \o <<SpanEnd>>

renderTrackAdvance(content, filesByName) ==
    LET parts == split(content, "|")
        name  == partOr(parts, 1, <<>>)
        path  == partOr(parts, 2, <<>>)
        to    == intOr(parts, 4, 0)
        steps == intOr(parts, 6, 1)
        slug  == resolvePathToSlug(path, filesByName)
        boxes == floorDiv4(to)
    IN  <<"<span class=\"iv-inline-mechanics track-advance\">">>
        \o <<"<span class=\"iv-inline-track-icon\">", ICONS.copyCheck, SpanEnd>>
        \o link(slug, "iv-inline-track-name iv-inline-link", name)
        \o <<"<span class=\"iv-inline-track-progress\"> +">> \o numToStr(steps)
        \o <<" (">> \o numToStr(boxes) \o <<"/10)</span>">>
        \o <<SpanEnd>>

renderTrackComplete(content, filesByName) ==
    LET parts == split(content, "|")
        name  == partOr(parts, 1, <<>>)
        path  == partOr(parts, 2, <<>>)
        slug  == resolvePathToSlug(path, filesByName)
    IN  <<"<span class=\"iv-inline-mechanics track-complete\">">>
        \o <<"<span class=\"iv-inline-track-icon\">", ICONS.squareCheckBig, SpanEnd>>
        \o link(slug, "iv-inline-track-name iv-inline-link", name)
        \o <<"<span class=\"iv-inline-track-status\">completed</span>">>
        \o <<SpanEnd>>

renderProgressRoll(content, filesByName) ==
    LET parts    == split(content, "|")
        name     == partOr(parts, 1, <<>>)
        progress == intOr(parts, 2, 0)
        vs1      == intOr(parts, 3, 0)
        vs2      == intOr(parts, 4, 0)
        path     == partOr(parts, 5, <<>>)
        outcome  == getOutcomeInline(progress, vs1, vs2)
        match    == isMatch(vs1, vs2)
        slug     == IF path # <<>> THEN resolvePathToSlug(path, filesByName) ELSE <<>>
    IN  outcomeClasses(outcome, match)
        \o <<"<span class=\"iv-inline-outcome-icon\"></span>">>
        \o <<"<span class=\"iv-inline-progress-name iv-inline-link\">">>
        \o escapeHtmlInline(name) \o <<SpanEnd>>
        \o (IF slug # <<>>
            THEN <<"<a href=\"", "/">> \o slug
                 \o <<"\" class=\"iv-inline-progress-track iv-inline-link\">(track)</a>">>
            ELSE <<>>)
        \o <<"<span class=\"iv-inline-separator\">-</span>">>
        \o <<"<span class=\"iv-inline-score\">">> \o numToStr(progress) \o <<SpanEnd>>
        \o <<"<span> vs </span>">>
        \o <<"<span class=\"iv-inline-challenge-die vs1\">">> \o numToStr(vs1) \o <<SpanEnd>>
        \o <<"<span>|</span>">>
        \o <<"<span class=\"iv-inline-challenge-die vs2\">">> \o numToStr(vs2) \o <<SpanEnd>>
        \o matchSpan(match)
        \o <<SpanEnd>>

renderNoRoll(content) ==
    LET parts == split(content, "|")
        name  == partOr(parts, 1, <<>>)
    IN  <<"<span class=\"iv-inline-mechanics no-roll\">">>
        \o <<"<span class=\"iv-inline-noroll-icon\">", ICONS.filePenLine, SpanEnd>>
        \o <<"<span class=\"iv-inline-move-name iv-inline-link\">">>
        \o escapeHtmlInline(name) \o <<SpanEnd>>
        \o <<SpanEnd>>

renderEntityCreate(content, filesByName) ==
    LET parts == split(content, "|")
        type  == partOr(parts, 1, <<>>)
        name  == partOr(parts, 2, <<>>)
        path  == partOr(parts, 3, <<>>)
        slug  == resolvePathToSlug(path, filesByName)
    IN  <<"<span class=\"iv-inline-mechanics entity-create\">">>
        \o <<"<span class=\"iv-inline-entity-icon\">", ICONS.filePlus, SpanEnd>>
        \o <<"<span class=\"iv-inline-entity-type\">">>
        \o escapeHtmlInline(type) \o <<":</span>">>
        \o link(slug, "iv-inline-entity-name iv-inline-link", name)
        \o <<SpanEnd>>

renderClockCreate(content, filesByName) ==
    LET parts    == split(content, "|")
        name     == partOr(parts, 1, <<>>)
        segments == partOr(parts, 2, <<>>)
        path     == partOr(parts, 3, <<>>)
        slug     == resolvePathToSlug(path, filesByName)
    IN  <<"<span class=\"iv-inline-mechanics clock-create\">">>
        \o <<"<span class=\"iv-inline-clock-icon\">", ICONS.clock, SpanEnd>>
        \o link(slug, "iv-inline-clock-name iv-inline-link", name)
        \o <<"<span class=\"iv-inline-clock-progress\">(0/">> \o segments \o <<")</span>">>
        \o <<SpanEnd>>

renderClockAdvance(content, filesByName) ==
    LET parts    == split(content, "|")
        name     == partOr(parts, 1, <<>>)
        from     == partOr(parts, 2, <<"0">>)
        to       == partOr(parts, 3, <<"0">>)
        segments == partOr(parts, 4, <<>>)
        path     == partOr(parts, 5, <<>>)
        slug     == resolvePathToSlug(path, filesByName)
    IN  <<"<span class=\"iv-inline-mechanics clock-advance\">">>
        \o <<"<span class=\"iv-inline-clock-icon\">", ICONS.clockArrowUp, SpanEnd>>
        \o link(slug, "iv-inline-clock-name iv-inline-link", name)
        \o <<"<span class=\"iv-inline-clock-progress\">">>
        \o from \o <<Arrow>> \o to \o <<"/">> \o segments \o <<SpanEnd>>
        \o <<SpanEnd>>

renderClockResolve(content, filesByName) ==
    LET parts == split(content, "|")
        name  == partOr(parts, 1, <<>>)
        path  == partOr(parts, 2, <<>>)
        slug  == resolvePathToSlug(path, filesByName)
    IN  <<"<span class=\"iv-inline-mechanics clock-resolve\">">>
        \o <<"<span class=\"iv-inline-clock-icon\">", ICONS.circleCheckBig, SpanEnd>>
        \o link(slug, "iv-inline-clock-name iv-inline-link", name)
        \o <<"<span class=\"iv-inline-clock-status\">resolved</span>">>
        \o <<SpanEnd>>

renderDice(content) ==
    LET parts      == split(content, "|")
        expression == partOr(parts, 1, <<>>)
        result     == partOr(parts, 2, <<>>)
    IN  <<"<span class=\"iv-inline-mechanics dice-roll\">">>
        \o <<"<span class=\"iv-inline-dice-icon\">", ICONS.dices, SpanEnd>>
        \o <<"<span class=\"iv-inline-dice-expression\">">>
        \o escapeHtmlInline(expression) \o <<SpanEnd>>
        \o <<"<span class=\"iv-inline-dice-arrow\">-></span>">>
        \o <<"<span class=\"iv-inline-dice-result\">">>
        \o escapeHtmlInline(result) \o <<SpanEnd>>
        \o <<SpanEnd>>

renderOOC(content) ==
    <<"<span class=\"iv-inline-mechanics ooc\">">>
    \o <<"<span class=\"iv-inline-ooc-icon\">", ICONS.messageCircle, SpanEnd>>
    \o <<"<span class=\"iv-inline-ooc-text\">">> \o escapeHtmlInline(content) \o <<SpanEnd>>
    \o <<SpanEnd>>

\* the sixteen kind tags of the switch
\* the kind tags of the switch in parseInlineMechanic
Tag ==
    [move |-> <<"i", "v", "-", "m", "o", "v", "e">>,
     oracle |-> <<"i", "v", "-", "o", "r", "a", "c", "l", "e">>,
     meter |-> <<"i", "v", "-", "m", "e", "t", "e", "r">>,
     burn |-> <<"i", "v", "-", "b", "u", "r", "n">>,
     initiative |-> <<"i", "v", "-", "i", "n", "i", "t", "i", "a", "t", "i", "v", "e">>,
     trackCreate |-> <<"i", "v", "-", "t", "r", "a", "c", "k", "-", "c", "r", "e", "a", "t", "e">>,
     trackAdvance |-> <<"i", "v", "-", "t", "r", "a", "c", "k", "-", "a", "d", "v", "a", "n", "c", "e">>,
     trackComplete |-> <<"i", "v", "-", "t", "r", "a", "c", "k", "-", "c", "o", "m", "p", "l", "e", "t", "e">>,
     progress |-> <<"i", "v", "-", "p", "r", "o", "g", "r", "e", "s", "s">>,
     noroll |-> <<"i", "v", "-", "n", "o", "r", "o", "l", "l">>,
     entityCreate |-> <<"i", "v", "-", "e", "n", "t", "i", "t", "y", "-", "c", "r", "e", "a", "t", "e">>,
     clockCreate |-> <<"i", "v", "-", "c", "l", "o", "c", "k", "-", "c", "r", "e", "a", "t", "e">>,
     clockAdvance |-> <<"i", "v", "-", "c", "l", "o", "c", "k", "-", "a", "d", "v", "a", "n", "c", "e">>,
     clockResolve |-> <<"i", "v", "-", "c", "l", "o", "c", "k", "-", "r", "e", "s", "o", "l", "v", "e">>,
     dice |-> <<"i", "v", "-", "d", "i", "c", "e">>,
     ooc |-> <<"i", "v", "-", "o", "o", "c">>]

KindTags == {Tag[k] : k \in DOMAIN Tag}

IvPrefix == <<"i", "v", "-">>

Null == [isNull |-> TRUE, html |-> <<>>]

Html(tokens) == [isNull |-> FALSE, html |-> tokens]

parseInlineMechanicLastColon(code, filesByName) ==
    IF ~startsWith(code, IvPrefix) THEN Null
    ELSE LET colonIndex == lastIndexOf(code, ":")
         IN  IF colonIndex = 0 THEN Null
             ELSE LET type    == SubSeq(code, 1, colonIndex - 1)
                      content == SubSeq(code, colonIndex + 1, Len(code))
                  IN  CASE type = Tag.move -> Html(renderMove(content))
                        [] type = Tag.oracle -> Html(renderOracle(content))
                        [] type = Tag.meter -> Html(renderMeter(content))
                        [] type = Tag.burn -> Html(renderBurn(content))
                        [] type = Tag.initiative -> Html(renderInitiative(content))
                        [] type = Tag.trackCreate -> Html(renderTrackCreate(content, filesByName))
                        [] type = Tag.trackAdvance -> Html(renderTrackAdvance(content, filesByName))
                        [] type = Tag.trackComplete -> Html(renderTrackComplete(content, filesByName))
                        [] type = Tag.progress -> Html(renderProgressRoll(content, filesByName))
                        [] type = Tag.noroll -> Html(renderNoRoll(content))
                        [] type = Tag.entityCreate -> Html(renderEntityCreate(content, filesByName))
                        [] type = Tag.clockCreate -> Html(renderClockCreate(content, filesByName))
                        [] type = Tag.clockAdvance -> Html(renderClockAdvance(content, filesByName))
                        [] type = Tag.clockResolve -> Html(renderClockResolve(content, filesByName))
                        [] type = Tag.dice -> Html(renderDice(content))
                        [] type = Tag.ooc -> Html(renderOOC(content))
                        [] OTHER -> Null

parseInlineMechanic(code, filesByName) ==
    IF ~startsWith(code, IvPrefix) THEN Null
    ELSE LET colonIndex == indexOf(code, ":")
         IN  IF colonIndex = 0 THEN Null
             ELSE LET type    == SubSeq(code, 1, colonIndex - 1)
                      content == SubSeq(code, colonIndex + 1, Len(code))
                  IN  CASE type = Tag.move -> Html(renderMove(content))
                        [] type = Tag.oracle -> Html(renderOracle(content))
                        [] type = Tag.meter -> Html(renderMeter(content))
                        [] type = Tag.burn -> Html(renderBurn(content))
                        [] type = Tag.initiative -> Html(renderInitiative(content))
                        [] type = Tag.trackCreate -> Html(renderTrackCreate(content, filesByName))
                        [] type = Tag.trackAdvance -> Html(renderTrackAdvance(content, filesByName))
                        [] type = Tag.trackComplete -> Html(renderTrackComplete(content, filesByName))
                        [] type = Tag.progress -> Html(renderProgressRoll(content, filesByName))
                        [] type = Tag.noroll -> Html(renderNoRoll(content))
                        [] type = Tag.entityCreate -> Html(renderEntityCreate(content, filesByName))
                        [] type = Tag.clockCreate -> Html(renderClockCreate(content, filesByName))
                        [] type = Tag.clockAdvance -> Html(renderClockAdvance(content, filesByName))
                        [] type = Tag.clockResolve -> Html(renderClockResolve(content, filesByName))
                        [] type = Tag.dice -> Html(renderDice(content))
                        [] type = Tag.ooc -> Html(renderOOC(content))
                        [] OTHER -> Null

(***************************************************************************)
(* Regular expressions of the block parser.  A pattern is a sequence of    *)
(* atoms; an atom is a literal string, or a character class with a         *)
(* quantifier ("1", "+", "*", "?") that may open capture group o before it *)
(* and close capture group e after it (0 for none).  Quantifiers are       *)
(* greedy and backtrack, as in JavaScript; a search returns the leftmost   *)
(* match.                                                                  *)
(***************************************************************************)
isWord(c) ==
    \/ isDigit(c)
    \/ c = "_"
    \/ \E i \in 1..26 : UpperCase[i] = c \/ LowerCase[i] = c

class(set, neg, w, d, sp) == [set |-> set, neg |-> neg, w |-> w, d |-> d, sp |-> sp]

inClass(c, cl) ==
    LET base == \/ c \in cl.set
                \/ cl.w /\ isWord(c)
                \/ cl.d /\ isDigit(c)
                \/ cl.sp /\ isSpace(c)
    IN  base # cl.neg

atom(cl, q, o, e) == [c |-> cl, q |-> q, o |-> o, e |-> e, str |-> <<>>]

\* one literal character
lit(ch) == atom(class({ch}, FALSE, FALSE, FALSE, FALSE), "1", 0, 0)

\* a literal string, as a pattern of one atom that matches the whole of it
lits(str) ==
    <<[c |-> class({}, FALSE, FALSE, FALSE, FALSE), q |-> "str", o |-> 0, e |-> 0, str |-> str]>>

\* \s+
spaces == atom(class({}, FALSE, FALSE, FALSE, TRUE), "+", 0, 0)

\* (\w+) as group g
wordGroup(g) == atom(class({}, FALSE, TRUE, FALSE, FALSE), "+", g, g)

\* (\d+) as group g
digitsGroup(g) == atom(class({}, FALSE, FALSE, TRUE, FALSE), "+", g, g)

\* ([^...]+) and ([^...]*) as group g
noneOfGroup(set, q, g) == atom(class(set, TRUE, FALSE, FALSE, FALSE), q, g, g)

\* . (any character but a line break)
dot == atom(class({"\n", "\r"}, TRUE, FALSE, FALSE, FALSE), "1", 0, 0)

MaxGroups == 6

NoCaps == [g \in 1..MaxGroups |-> <<0, 0>>]

NoMatch == [ok |-> FALSE, start |-> 0, end |-> 0, caps |-> NoCaps]

\* how many characters of s from position pos on are in class cl, at most cap
runLen(cl, s, pos, cap) ==
    LET last  == IF pos + cap - 1 < Len(s) THEN pos + cap - 1 ELSE Len(s)
        stops == {j \in pos..last : ~inClass(s[j], cl)}
    IN  IF stops = {} THEN last - pos + 1
        ELSE (CHOOSE j \in stops : \A k \in stops : j <= k) - pos

\* const name = value; ...: the value is worked out once and the rest reads it
const(value, Rest(_)) == Rest(value)

const2(a, b, Rest(_, _)) == Rest(a, b)

const3(a, b, c, Rest(_, _, _)) == Rest(a, b, c)

\* the least member of a non-empty set of positions
least(positions) == CHOOSE p \in positions : \A q \in positions : p <= q

\* the first of two attempts that matches
firstOf(attempt, other) == IF attempt.ok THEN attempt ELSE other

\* the capture groups once the atom a has taken the n characters from pos on
captured(caps, a, pos, n) ==
    [g \in 1..MaxGroups |->
        IF g = a.e THEN <<IF g = a.o THEN pos ELSE caps[g][1], pos + n>>
        ELSE IF g = a.o THEN <<pos, pos>>
        ELSE caps[g]]

\* atoms k.. of rx matched against s from position pos; the atom k takes n
\* characters, or fewer when the rest does not match then
RECURSIVE matchAt(_, _, _, _, _), tryCount(_, _, _, _, _, _, _)
matchAt(rx, k, s, pos, caps) ==
    IF k > Len(rx) THEN [ok |-> TRUE, start |-> 0, end |-> pos, caps |-> caps]
    ELSE IF rx[k].q = "str"
    THEN IF pos + Len(rx[k].str) - 1 <= Len(s)
            /\ SubSeq(s, pos, pos + Len(rx[k].str) - 1) = rx[k].str
         THEN matchAt(rx, k + 1, s, pos + Len(rx[k].str), caps)
         ELSE NoMatch
    ELSE tryCount(rx, k, s, pos, caps,
                  runLen(rx[k].c, s, pos, IF rx[k].q \in {"1", "?"} THEN 1 ELSE Len(s)),
                  IF rx[k].q \in {"1", "+"} THEN 1 ELSE 0)

tryCount(rx, k, s, pos, caps, n, need) ==
    IF n < need THEN NoMatch
    ELSE firstOf(matchAt(rx, k + 1, s, pos + n, captured(caps, rx[k], pos, n)),
                 tryCount(rx, k, s, pos, caps, n - 1, need))

\* the match of rx in s that starts at one of the positions, the leftmost of them
matchAmong(rx, s, starts) ==
    IF starts = {} THEN NoMatch
    ELSE [matchAt(rx, 1, s, least(starts), NoCaps) EXCEPT !.start = least(starts)]

\* the leftmost match of rx in s that starts at position from or later
search(rx, s, from) ==
    matchAmong(rx, s, {p \in from..(Len(s) + 1) : matchAt(rx, 1, s, p, NoCaps).ok})

\* s.match(rx) for a pattern without the g flag
match(rx, s) == search(rx, s, 1)

\* rx.test(s)
test(rx, s) == search(rx, s, 1).ok

\* s.matchAll(rx): every match, left to right, each search resuming where the last
\* match ended (one further on after an empty match)
RECURSIVE matchAllFrom(_, _, _), matchAllAfter(_, _, _)
matchAllFrom(rx, s, from) == matchAllAfter(rx, s, search(rx, s, from))

matchAllAfter(rx, s, found) ==
    IF ~found.ok THEN <<>>
    ELSE <<found>>
         \o matchAllFrom(rx, s, IF found.end = found.start THEN found.end + 1 ELSE found.end)

matchAll(rx, s) == matchAllFrom(rx, s, 1)

\* the text of capture group g of the match m in s
group(m, s, g) == SubSeq(s, m.caps[g][1], m.caps[g][2] - 1)

\* the number of occurrences of the character c in s: (s.match(/c/g) || []).length
count(s, c) == Cardinality({i \in 1..Len(s) : s[i] = c})

(***************************************************************************)
(* JavaScript values: what a property of the props record can hold and     *)
(* what the operators of the block renderers make of it.  A number is an   *)
(* integer or NaN; the statements of the model carry no decimal point.     *)
(***************************************************************************)
Undefined == [t |-> "undefined", s |-> <<>>, n |-> 0]

Str(s) == [t |-> "string", s |-> s, n |-> 0]

Num(n) == [t |-> "number", s |-> <<>>, n |-> n]

NaNValue == [t |-> "NaN", s |-> <<>>, n |-> 0]

\* ToBoolean
truthy(v) ==
    \/ v.t = "string" /\ v.s # <<>>
    \/ v.t = "number" /\ v.n # 0

\* a || b
orElse(a, b) == IF truthy(a) THEN a ELSE b

\* ToString, as a template literal and String() apply it
toText(v) ==
    IF v.t = "string" THEN v.s
    ELSE IF v.t = "number" THEN numToStr(v.n)
    ELSE IF v.t = "NaN" THEN <<"N", "a", "N">>
    ELSE <<"u", "n", "d", "e", "f", "i", "n", "e", "d">>

\* a string that is an optional sign and digits only
isIntegerText(s) ==
    LET body == IF s # <<>> /\ Head(s) \in {"+", "-"} THEN Tail(s) ELSE s
    IN  body # <<>> /\ \A i \in 1..Len(body) : isDigit(body[i])

\* ToNumber: blank text is 0, integer text its value, other text NaN
toNumber(v) ==
    IF v.t = "number" \/ v.t = "NaN" THEN v
    ELSE IF v.t = "undefined" THEN NaNValue
    ELSE LET x == trim(v.s)
         IN  IF x = <<>> THEN Num(0)
             ELSE IF isIntegerText(x) THEN Num(parseInt(x).n)
             ELSE NaNValue

\* a + b: concatenation as soon as one side is a string
plus(a, b) ==
    IF a.t = "string" \/ b.t = "string" THEN Str(toText(a) \o toText(b))
    ELSE LET x == toNumber(a)
             y == toNumber(b)
         IN  IF x.t = "NaN" \/ y.t = "NaN" THEN NaNValue ELSE Num(x.n + y.n)

\* a - b
minus(a, b) ==
    LET x == toNumber(a)
        y == toNumber(b)
    IN  IF x.t = "NaN" \/ y.t = "NaN" THEN NaNValue ELSE Num(x.n - y.n)

\* a * b
times(a, b) ==
    LET x == toNumber(a)
        y == toNumber(b)
    IN  IF x.t = "NaN" \/ y.t = "NaN" THEN NaNValue ELSE Num(x.n * y.n)

\* Math.min(a, b)
mathMin(a, b) ==
    LET x == toNumber(a)
        y == toNumber(b)
    IN  IF x.t = "NaN" \/ y.t = "NaN" THEN NaNValue ELSE Num(min(x.n, y.n))

\* Math.abs(a)
mathAbs(a) ==
    LET x == toNumber(a)
    IN  IF x.t = "NaN" THEN NaNValue ELSE Num(IF x.n < 0 THEN -x.n ELSE x.n)

\* Math.floor(a / 4): rounds towards minus infinity
floorQuarter(a) ==
    LET x == toNumber(a)
    IN  IF x.t = "NaN" THEN NaNValue ELSE Num(x.n \div 4)

\* a % 4: the remainder carries the sign of a
remQuarter(a) ==
    LET x == toNumber(a)
    IN  IF x.t = "NaN" THEN NaNValue
        ELSE Num(IF x.n < 0 THEN -((-x.n) % 4) ELSE x.n % 4)

\* the printable ASCII characters in code order, for the comparison of two strings:
\* codes 32 to 95, and codes 97 to 126
AsciiLow ==
    <<" ", "!", "\"", "#", "$", "%", "&", "'", "(", ")", "*", "+", ",", "-", ".", "/">>
    \o Digits \o <<":", ";", "<", "=", ">", "?", "@">>
    \o UpperCase \o <<"[", "\\", "]", "^", "_">>

AsciiHigh == LowerCase \o <<"{", "|", "}", "~">>

charCode(c) ==
    IF \E i \in 1..Len(AsciiLow) : AsciiLow[i] = c
    THEN 31 + (CHOOSE i \in 1..Len(AsciiLow) : AsciiLow[i] = c)
    ELSE IF \E i \in 1..Len(AsciiHigh) : AsciiHigh[i] = c
    THEN 96 + (CHOOSE i \in 1..Len(AsciiHigh) : AsciiHigh[i] = c)
    ELSE 10

\* s < t in code-unit order
RECURSIVE textLess(_, _)
textLess(s, t) ==
    IF t = <<>> THEN FALSE
    ELSE IF s = <<>> THEN TRUE
    ELSE IF Head(s) # Head(t) THEN charCode(Head(s)) < charCode(Head(t))
    ELSE textLess(Tail(s), Tail(t))

\* a < b: two strings compare as text, anything else as numbers, NaN never
less(a, b) ==
    IF a.t = "string" /\ b.t = "string" THEN textLess(a.s, b.s)
    ELSE LET x == toNumber(a)
             y == toNumber(b)
         IN  x.t = "number" /\ y.t = "number" /\ x.n < y.n

\* a > b
greater(a, b) == less(b, a)

\* a === b
strictEquals(a, b) == a.t # "NaN" /\ a = b

(***************************************************************************)
(* The block parser.  Its output is a sequence of tokens: a character that *)
(* comes from the authored text or from a number is one token, a piece of  *)
(* markup the parser writes itself is one token per tag.  The blanks and   *)
(* line breaks the template literals put between tags are left out.        *)
(***************************************************************************)
\* the value a renderer has when it calls a string method on a number:
\* "TypeError: text.replace is not a function" and its like
Thrown == "TypeError"

threw(html) == indexOf(html, Thrown) # 0

\* what a function hands to its caller: an exception raised while the tokens
\* were being put together replaces them all
returns(html) == IF threw(html) THEN <<Thrown>> ELSE html

\* escapeHtml(v) for a value of any type: only a string has a replace method
escapeValue(v) == IF v.t = "string" THEN escapeHtml(v.s) ELSE <<Thrown>>

dl(classes) == <<"<dl class=\"">> \o classes \o <<"\">">>

dd(classes, text) == <<"<dd class=\"">> \o classes \o <<"\">">> \o text \o <<"</dd>">>

ddValue(classes, text) ==
    <<"<dd class=\"">> \o classes \o <<"\" data-value=\"">> \o text \o <<"\">">>
    \o text \o <<"</dd>">>

DlEnd == "</dl>"

\* `${outcome}${match ? ' match' : ''}`
outcomeMatch(outcome, isAMatch) == <<outcome>> \o (IF isAMatch THEN <<" match">> ELSE <<>>)

max(a, b) == IF a > b THEN a ELSE b

\* s.substring(a, b) with 0-based a and b: each is clamped to 0..length, and the
\* smaller of the two is the start
substring(s, a, b) ==
    LET x == max(0, min(a, Len(s)))
        y == max(0, min(b, Len(s)))
    IN  SubSeq(s, min(x, y) + 1, max(x, y))

\* \[([^\]]+)\]\([^)]+\)
MarkdownLink ==
    <<lit("["), noneOfGroup({"]"}, "+", 1), lit("]"), lit("("), noneOfGroup({")"}, "+", 2),
      lit(")")>>

\* s.replace(pattern, '$1'): the first match becomes the text of its first group
replaceWithGroup(s, found) ==
    IF found.ok
    THEN SubSeq(s, 1, found.start - 1) \o group(found, s, 1) \o SubSeq(s, found.end, Len(s))
    ELSE s

\* s.replace(/\[([^\]]+)\]\([^)]+\)/, '$1'): the first markdown link becomes its text
linkText(s) == replaceWithGroup(s, match(MarkdownLink, s))

\* the getOutcome of the block parser on values of any type
getOutcome(score, vs1, vs2) ==
    IF greater(score, vs1) /\ greater(score, vs2) THEN "strong-hit"
    ELSE IF greater(score, vs1) \/ greater(score, vs2) THEN "weak-hit"
    ELSE "miss"

\* the number of { minus the number of } on a line
braces(line) == count(line, "{") - count(line, "}")

\* a collection that goes on until the count is exactly zero
RECURSIVE collectUntilZero(_, _, _)
collectUntilZero(lines, i, braceCount) ==
    IF braceCount # 0 /\ i + 1 <= Len(lines)
    THEN collectUntilZero(lines, i + 1, braceCount + braces(lines[i + 1]))
    ELSE i

\* the index of the last line collectBlock collects, the count so far being braceCount
RECURSIVE collectFrom(_, _, _)
collectFrom(lines, i, braceCount) ==
    IF braceCount > 0 /\ i + 1 <= Len(lines)
    THEN collectFrom(lines, i + 1, braceCount + braces(lines[i + 1]))
    ELSE i

collectBlockNoAdvance(lines, startIndex) ==
    LET end == collectFrom(lines, startIndex, braces(lines[startIndex]))
    IN  [content |-> join(SubSeq(lines, startIndex, end), <<"\n">>), endIndex |-> startIndex]

collectBlock(lines, startIndex) ==
    LET end == collectFrom(lines, startIndex, braces(lines[startIndex]))
    IN  [content |-> join(SubSeq(lines, startIndex, end), <<"\n">>), endIndex |-> end]

\* (\w+)="([^"]*)"
QuotedProp == <<wordGroup(1), lit("="), lit("\""), noneOfGroup({"\""}, "*", 2), lit("\"")>>

\* (\w+)=(-?\d+(?:\.\d+)?), without the fraction no statement of the model carries
UnquotedProp ==
    <<wordGroup(1), lit("="),
      atom(class({"-"}, FALSE, FALSE, FALSE, FALSE), "?", 2, 0),
      atom(class({}, FALSE, FALSE, TRUE, FALSE), "+", 0, 2)>>

\* the assignments one pass of parseProps makes, in the order of its matches
assignments(line, matches, Value(_)) ==
    [i \in 1..Len(matches) |->
        [k |-> group(matches[i], line, 1), v |-> Value(group(matches[i], line, 2))]]

\* parseFloat of the text a match of UnquotedProp captures
parseFloat(text) == Num(parseInt(text).n)

\* the two passes in the other order: numbers first, quoted strings second
parsePropsNumbersFirst(line) ==
    assignments(line, matchAll(UnquotedProp, line), parseFloat)
    \o assignments(line, matchAll(QuotedProp, line), Str)

\* the props record as the list of its assignments, in the order they are made
parseProps(line) ==
    assignments(line, matchAll(QuotedProp, line), Str)
    \o assignments(line, matchAll(UnquotedProp, line), parseFloat)

\* props[key]: the last assignment to key, undefined when there is none
RECURSIVE prop(_, _)
prop(props, key) ==
    IF props = <<>> THEN Undefined
    ELSE IF props[Len(props)].k = key THEN props[Len(props)].v
    ELSE prop(SubSeq(props, 1, Len(props) - 1), key)

\* move\s+"([^"]+)"
MoveName == lits(<<"m", "o", "v", "e">>) \o <<spaces, lit("\""), noneOfGroup({"\""}, "+", 1), lit("\"")>>

\* roll\s+"([^"]+)"\s+action=(\d+)\s+adds=(\d+)\s+stat=(\d+)\s+vs1=(\d+)\s+vs2=(\d+)
MoveRoll ==
    lits(<<"r", "o", "l", "l">>) \o <<spaces, lit("\""), noneOfGroup({"\""}, "+", 1), lit("\""), spaces>>
    \o lits(<<"a", "c", "t", "i", "o", "n", "=">>) \o <<digitsGroup(2), spaces>>
    \o lits(<<"a", "d", "d", "s", "=">>) \o <<digitsGroup(3), spaces>>
    \o lits(<<"s", "t", "a", "t", "=">>) \o <<digitsGroup(4), spaces>>
    \o lits(<<"v", "s", "1", "=">>) \o <<digitsGroup(5), spaces>>
    \o lits(<<"v", "s", "2", "=">>) \o <<digitsGroup(6)>>

\* a move rendered with the whole text of its block
parseMoveBlockWithBody(content) ==
    <<"<details class=\"move\" open>">> \o escapeHtml(content) \o <<"</details>">>

parseMoveBlock(content) ==
    const2(match(MoveName, content), match(MoveRoll, content), LAMBDA nameMatch, rollMatch :
      LET name      == linkText(group(nameMatch, content, 1))
          stat      == group(rollMatch, content, 1)
          action    == parseInt(group(rollMatch, content, 2)).n
          adds      == parseInt(group(rollMatch, content, 3)).n
          statValue == parseInt(group(rollMatch, content, 4)).n
          vs1       == parseInt(group(rollMatch, content, 5)).n
          vs2       == parseInt(group(rollMatch, content, 6)).n
          score     == min(10, action + statValue + adds)
          outcome   == getOutcomeBlock(score, vs1, vs2)
          isAMatch  == vs1 = vs2
      IN  IF ~nameMatch.ok
          THEN <<"<p class=\"error\">", "Could not parse move: ">>
               \o escapeHtml(substring(content, 0, 50)) \o <<"</p>">>
          ELSE IF ~rollMatch.ok
          THEN <<"<details class=\"move\" open>", "<summary>", "<span class=\"move-name\">">>
               \o escapeHtml(name) \o <<"</span>", "</summary>", "</details>">>
          ELSE <<"<details class=\"", "move ">> \o outcomeMatch(outcome, isAMatch)
               \o <<"\" open>", "<summary>", "<span class=\"move-name\">">>
               \o escapeHtml(name) \o <<"</span>", "</summary>">>
               \o dl(<<"roll ">> \o outcomeMatch(outcome, isAMatch))
               \o <<"<dt>Roll</dt>">>
               \o dd(<<"action-die">>, numToStr(action))
               \o dd(<<"stat">>, numToStr(statValue))
               \o dd(<<"stat-name">>, escapeHtml(stat))
               \o dd(<<"adds">>, numToStr(adds))
               \o dd(<<"score">>, numToStr(score))
               \o dd(<<"challenge-die vs1">>, numToStr(vs1))
               \o dd(<<"challenge-die vs2">>, numToStr(vs2))
               \o dd(<<"outcome">>, <<outcome>>)
               \o <<DlEnd, "</details>">>)

parseRollBlock(line) ==
    const(parseProps(line), LAMBDA props :
      LET statName == orElse(orElse(prop(props, <<"s", "t", "a", "t", "-", "n", "a", "m", "e">>), prop(props, <<"s", "t", "a", "t", "_", "n", "a", "m", "e">>)), Str(<<>>))
          action   == orElse(prop(props, <<"a", "c", "t", "i", "o", "n">>), Num(0))
          stat     == orElse(prop(props, <<"s", "t", "a", "t">>), Num(0))
          adds     == orElse(prop(props, <<"a", "d", "d", "s">>), Num(0))
          vs1      == orElse(prop(props, <<"v", "s", "1">>), Num(0))
          vs2      == orElse(prop(props, <<"v", "s", "2">>), Num(0))
          score    == mathMin(Num(10), plus(plus(action, stat), adds))
          outcome  == getOutcome(score, vs1, vs2)
          isAMatch == strictEquals(vs1, vs2)
      IN  returns(
            dl(<<"roll ">> \o outcomeMatch(outcome, isAMatch))
            \o <<"<dt>Roll</dt>">>
            \o dd(<<"action-die">>, toText(action))
            \o dd(<<"stat">>, toText(stat))
            \o (IF truthy(statName) THEN dd(<<"stat-name">>, escapeValue(statName)) ELSE <<>>)
            \o dd(<<"adds">>, toText(adds))
            \o dd(<<"score">>, toText(score))
            \o dd(<<"challenge-die vs1">>, toText(vs1))
            \o dd(<<"challenge-die vs2">>, toText(vs2))
            \o dd(<<"outcome">>, <<outcome>>)
            \o <<DlEnd>>))

parseProgressRollBlock(line) ==
    const(parseProps(line), LAMBDA props :
      LET trackName == orElse(prop(props, <<"n", "a", "m", "e">>), Str(<<>>))
          score     == orElse(prop(props, <<"s", "c", "o", "r", "e">>), Num(0))
          vs1       == orElse(prop(props, <<"v", "s", "1">>), Num(0))
          vs2       == orElse(prop(props, <<"v", "s", "2">>), Num(0))
          outcome   == getOutcome(score, vs1, vs2)
          isAMatch  == strictEquals(vs1, vs2)
      IN  returns(
            dl(<<"roll progress ">> \o outcomeMatch(outcome, isAMatch))
            \o <<"<dt>Progress Roll</dt>">>
            \o dd(<<"track-name">>, escapeValue(trackName))
            \o dd(<<"progress-score">>, toText(score))
            \o dd(<<"challenge-die vs1">>, toText(vs1))
            \o dd(<<"challenge-die vs2">>, toText(vs2))
            \o dd(<<"outcome">>, <<outcome>>)
            \o <<DlEnd>>))

\* the statement keywords parseIronVaultBlock tests each trimmed line for
Keyword ==
    [move |-> <<"m", "o", "v", "e", " ">>,
     oracleGroup |-> <<"o", "r", "a", "c", "l", "e", "-", "g", "r", "o", "u", "p", " ">>,
     oracle |-> <<"o", "r", "a", "c", "l", "e", " ">>,
     roll |-> <<"r", "o", "l", "l", " ">>,
     progressRoll |-> <<"p", "r", "o", "g", "r", "e", "s", "s", "-", "r", "o", "l", "l", " ">>,
     meter |-> <<"m", "e", "t", "e", "r", " ">>,
     burn |-> <<"b", "u", "r", "n", " ">>,
     xp |-> <<"x", "p", " ">>,
     track |-> <<"t", "r", "a", "c", "k", " ">>,
     progress |-> <<"p", "r", "o", "g", "r", "e", "s", "s", " ">>,
     clock |-> <<"c", "l", "o", "c", "k", " ">>,
     asset |-> <<"a", "s", "s", "e", "t", " ">>,
     impact |-> <<"i", "m", "p", "a", "c", "t", " ">>,
     initiative |-> <<"i", "n", "i", "t", "i", "a", "t", "i", "v", "e", " ">>,
     position |-> <<"p", "o", "s", "i", "t", "i", "o", "n", " ">>,
     actor |-> <<"a", "c", "t", "o", "r", " ">>,
     reroll |-> <<"r", "e", "r", "o", "l", "l", " ">>,
     add |-> <<"a", "d", "d", " ">>,
     diceExpr |-> <<"d", "i", "c", "e", "-", "e", "x", "p", "r", " ">>,
     detail |-> <<"-", " ">>]

\* (props['name'] || '').replace(...): a number has no replace method
linkTextValue(v) == IF v.t = "string" THEN escapeHtml(linkText(v.s)) ELSE <<Thrown>>

OracleOpen == "<div class=\"oracle-container\">"

parseOracleBlock(line) ==
    const(parseProps(line), LAMBDA props :
      LET name     == orElse(prop(props, <<"n", "a", "m", "e">>), Str(<<>>))
          result   == orElse(prop(props, <<"r", "e", "s", "u", "l", "t">>), Str(<<>>))
          roll     == orElse(prop(props, <<"r", "o", "l", "l">>), Str(<<>>))
          cursed   == prop(props, <<"c", "u", "r", "s", "e", "d">>)
          replaced == prop(props, <<"r", "e", "p", "l", "a", "c", "e", "d">>)
      IN  returns(
            <<OracleOpen>> \o dl(<<"oracle">>) \o <<"<dt>Oracle</dt>">>
            \o dd(<<"name">>, linkTextValue(name))
            \o dd(<<"roll">>, toText(roll))
            \o dd(<<"result">>, escapeHtml(toText(result)))
            \o (IF cursed # Undefined THEN ddValue(<<"cursed">>, toText(cursed)) ELSE <<>>)
            \o (IF replaced # Undefined THEN ddValue(<<"replaced">>, toText(replaced)) ELSE <<>>)
            \o <<DlEnd, "</div>">>))

\* the fragments of the lines of a nested body that begin with "oracle "
RECURSIVE nestedOracles(_)
nestedOracles(nestedLines) ==
    IF nestedLines = <<>> THEN <<>>
    ELSE LET trimmed == trim(Head(nestedLines))
         IN  (IF startsWith(trimmed, Keyword.oracle) THEN <<parseOracleBlock(trimmed)>> ELSE <<>>)
             \o nestedOracles(Tail(nestedLines))

\* `<blockquote>${nestedResults.join('')}</blockquote>` when there is a nested result
blockquoted(nestedResults) ==
    IF Len(nestedResults) > 0
    THEN <<"<blockquote>">> \o concat(nestedResults) \o <<"</blockquote>">>
    ELSE <<>>

parseOracleWithNested(content) ==
    const(parseProps(split(content, "\n")[1]), LAMBDA props :
      LET name       == orElse(prop(props, <<"n", "a", "m", "e">>), Str(<<>>))
          result     == orElse(prop(props, <<"r", "e", "s", "u", "l", "t">>), Str(<<>>))
          roll       == orElse(prop(props, <<"r", "o", "l", "l">>), Str(<<>>))
          braceStart == indexOf(content, "{") - 1
          braceEnd   == lastIndexOf(content, "}") - 1
          inner      == trim(substring(content, braceStart + 1, braceEnd))
          nestedHtml ==
              IF braceStart # -1 /\ braceEnd # -1 /\ inner # <<>>
              THEN blockquoted(nestedOracles(split(inner, "\n")))
              ELSE <<>>
      IN  returns(
            <<OracleOpen>> \o dl(<<"oracle">>) \o <<"<dt>Oracle</dt>">>
            \o dd(<<"name">>, linkTextValue(name))
            \o dd(<<"roll">>, toText(roll))
            \o dd(<<"result">>, escapeHtml(toText(result)))
            \o <<DlEnd>> \o nestedHtml \o <<"</div>">>))

\* oracle-group\s+name="([^"]+)"
GroupName ==
    lits(<<"o", "r", "a", "c", "l", "e", "-", "g", "r", "o", "u", "p">>) \o <<spaces>> \o lits(<<"n", "a", "m", "e", "=", "\"">>)
    \o <<noneOfGroup({"\""}, "+", 1), lit("\"")>>

\* oracle\s+name="([^"]+)"\s+result="([^"]+)"\s+roll=(\d+)
GroupOracle ==
    lits(<<"o", "r", "a", "c", "l", "e">>) \o <<spaces>> \o lits(<<"n", "a", "m", "e", "=", "\"">>)
    \o <<noneOfGroup({"\""}, "+", 1), lit("\""), spaces>> \o lits(<<"r", "e", "s", "u", "l", "t", "=", "\"">>)
    \o <<noneOfGroup({"\""}, "+", 2), lit("\""), spaces>> \o lits(<<"r", "o", "l", "l", "=">>)
    \o <<digitsGroup(3)>>

GroupOpen == "<article class=\"oracle-group\">"

ArticleEnd == "</article>"

parseOracleGroupBlock(content) ==
    const2(match(GroupName, content), matchAll(GroupOracle, content),
           LAMBDA nameMatch, oracleMatches :
      LET name    == IF nameMatch.ok THEN group(nameMatch, content, 1) ELSE <<"O", "r", "a", "c", "l", "e", " ", "G", "r", "o", "u", "p">>
          oracles ==
              [i \in 1..Len(oracleMatches) |->
                  <<OracleOpen>> \o dl(<<"oracle">>) \o <<"<dt>Oracle</dt>">>
                  \o dd(<<"name">>, escapeHtml(linkText(group(oracleMatches[i], content, 1))))
                  \o dd(<<"roll">>, group(oracleMatches[i], content, 3))
                  \o dd(<<"result">>, escapeHtml(group(oracleMatches[i], content, 2)))
                  \o <<DlEnd, "</div>">>]
      IN  <<GroupOpen, "<span class=\"group-name\">">> \o escapeHtml(name) \o <<"</span>">>
          \o <<"<blockquote>">> \o concat(oracles) \o <<"</blockquote>", ArticleEnd>>)

\* delta < 0 ? 'negative' : 'positive'
signClass(v) == IF less(v, Num(0)) THEN "negative" ELSE "positive"

parseMeterBlock(line) ==
    const(parseProps(line), LAMBDA props :
      LET name  == orElse(prop(props, <<"n", "a", "m", "e">>), Str(<<>>))
          from  == orElse(prop(props, <<"f", "r", "o", "m">>), Num(0))
          to    == orElse(prop(props, <<"t", "o">>), Num(0))
          delta == minus(to, from)
      IN  returns(
            dl(<<"meter">>) \o <<"<dt>Meter</dt>">>
            \o dd(<<"meter-name">>, escapeValue(name))
            \o dd(<<"delta ", signClass(delta)>>, toText(mathAbs(delta)))
            \o dd(<<"from">>, toText(from))
            \o dd(<<"to">>, toText(to))
            \o <<DlEnd>>))

parseBurnBlock(line) ==
    const(parseProps(line), LAMBDA props :
      LET from  == orElse(prop(props, <<"f", "r", "o", "m">>), Num(0))
          to    == orElse(prop(props, <<"t", "o">>), Num(0))
      IN  dl(<<"burn">>) \o <<"<dt>Burn</dt>">>
          \o dd(<<"from">>, toText(from))
          \o dd(<<"to">>, toText(to))
          \o <<DlEnd>>)

parseXpBlock(line) ==
    const(parseProps(line), LAMBDA props :
      LET from  == orElse(prop(props, <<"f", "r", "o", "m">>), Num(0))
          to    == orElse(prop(props, <<"t", "o">>), Num(0))
          delta == minus(to, from)
      IN  dl(<<"xp">>) \o <<"<dt>XP</dt>">>
          \o dd(<<"delta ", signClass(delta)>>, toText(mathAbs(delta)))
          \o dd(<<"from">>, toText(from))
          \o dd(<<"to">>, toText(to))
          \o <<DlEnd>>)

\* name="\[\[([^|]+)\|([^\]]+)\]\]"
LinkedName ==
    lits(<<"n", "a", "m", "e", "=", "\"", "[", "[">>) \o <<noneOfGroup({"|"}, "+", 1), lit("|"), noneOfGroup({"]"}, "+", 2)>>
    \o lits(<<"]", "]", "\"">>)

\* status="([^"]+)"
QuotedStatus == lits(<<"s", "t", "a", "t", "u", "s", "=", "\"">>) \o <<noneOfGroup({"\""}, "+", 1), lit("\"")>>

\* <a href="${slug}">${escapeHtml(text)}</a>
anchor(slug, text) == <<"<a href=\"">> \o slug \o <<"\">">> \o escapeValue(text) \o <<"</a>">>

parseTrackBlock(line) ==
    const3(parseProps(line), match(LinkedName, line), match(QuotedStatus, line),
           LAMBDA props, nameMatch, statusMatch :
      LET path        == IF nameMatch.ok THEN group(nameMatch, line, 1) ELSE <<>>
          displayName == IF nameMatch.ok THEN Str(group(nameMatch, line, 2))
                         ELSE orElse(prop(props, <<"n", "a", "m", "e">>), Str(<<>>))
          status      == IF statusMatch.ok THEN Str(group(statusMatch, line, 1))
                         ELSE prop(props, <<"s", "t", "a", "t", "u", "s">>)
          slug        == pathToSlug(path)
          fromBoxes   == orElse(prop(props, <<"f", "r", "o", "m", "-", "b", "o", "x", "e", "s">>), Num(0))
          fromTicks   == orElse(prop(props, <<"f", "r", "o", "m", "-", "t", "i", "c", "k", "s">>), Num(0))
          toBoxes     == orElse(prop(props, <<"t", "o", "-", "b", "o", "x", "e", "s">>), Num(0))
          toTicks     == orElse(prop(props, <<"t", "o", "-", "t", "i", "c", "k", "s">>), Num(0))
      IN  returns(
            IF truthy(status)
            THEN dl(<<"track-status">>) \o <<"<dt>Track</dt>">>
                 \o dd(<<"track-name">>, anchor(slug, displayName))
                 \o ddValue(<<"track-status">>, toText(status))
                 \o <<DlEnd>>
            ELSE dl(<<"track">>) \o <<"<dt>Track</dt>">>
                 \o dd(<<"track-name">>, anchor(slug, displayName))
                 \o dd(<<"from-boxes">>, toText(fromBoxes))
                 \o dd(<<"from-ticks">>, toText(fromTicks))
                 \o dd(<<"to-boxes">>, toText(toBoxes))
                 \o dd(<<"to-ticks">>, toText(toTicks))
                 \o <<DlEnd>>))

\* ticksPerStep[key]: the table, and what a plain object inherits under a lower-case key
ticksPerStep(key) ==
    IF key = <<"t", "r", "o", "u", "b", "l", "e", "s", "o", "m", "e">> THEN Num(12)
    ELSE IF key = <<"d", "a", "n", "g", "e", "r", "o", "u", "s">> THEN Num(8)
    ELSE IF key = <<"f", "o", "r", "m", "i", "d", "a", "b", "l", "e">> THEN Num(4)
    ELSE IF key = <<"e", "x", "t", "r", "e", "m", "e">> THEN Num(2)
    ELSE IF key = <<"e", "p", "i", "c">> THEN Num(1)
    ELSE IF key = <<"c", "o", "n", "s", "t", "r", "u", "c", "t", "o", "r">> \/ key = <<"_", "_", "p", "r", "o", "t", "o", "_", "_">> THEN NaNValue
    ELSE Undefined

\* a || b where a may be NaN or an inherited object, both of which multiply to NaN
ticksOr(v, dflt) == IF v.t = "NaN" THEN v ELSE orElse(v, dflt)

parseProgressBlock(line) ==
    const2(parseProps(line), match(LinkedName, line), LAMBDA props, nameMatch :
      LET slug       == IF nameMatch.ok THEN pathToSlug(group(nameMatch, line, 1)) ELSE <<"#">>
          trackName  == IF nameMatch.ok THEN Str(group(nameMatch, line, 2))
                        ELSE orElse(prop(props, <<"n", "a", "m", "e">>), Str(<<>>))
          steps      == orElse(prop(props, <<"s", "t", "e", "p", "s">>), Num(1))
          rank       == orElse(orElse(prop(props, <<"r", "a", "n", "k">>), prop(props, <<"l", "e", "v", "e", "l">>)), Str(<<>>))
          from       == orElse(prop(props, <<"f", "r", "o", "m">>), Num(0))
          fromBoxes  == floorQuarter(from)
          fromTicks  == remQuarter(from)
          ticksToAdd == times(ticksOr(ticksPerStep(toLowerCase(rank.s)), Num(4)), steps)
          newProgress == plus(from, ticksToAdd)
          toBoxes    == floorQuarter(newProgress)
          toTicks    == remQuarter(newProgress)
      IN  IF rank.t # "string" THEN <<Thrown>>
          ELSE returns(
            dl(<<"progress">>) \o <<"<dt>Progress</dt>">>
            \o dd(<<"track-name">>, anchor(slug, trackName))
            \o dd(<<"steps ", signClass(steps)>>, toText(mathAbs(steps)))
            \o dd(<<"rank">>, escapeHtml(toText(rank)))
            \o dd(<<"from-boxes">>, toText(fromBoxes))
            \o dd(<<"from-ticks">>, toText(fromTicks))
            \o dd(<<"to-boxes">>, toText(toBoxes))
            \o dd(<<"to-ticks">>, toText(toTicks))
            \o <<DlEnd>>))

parseClockBlock(line) ==
    const(parseProps(line), LAMBDA props :
      LET name   == orElse(prop(props, <<"n", "a", "m", "e">>), Str(<<>>))
          status == prop(props, <<"s", "t", "a", "t", "u", "s">>)
          from   == orElse(prop(props, <<"f", "r", "o", "m">>), Num(0))
          to     == orElse(prop(props, <<"t", "o">>), Num(0))
          outOf  == orElse(orElse(prop(props, <<"o", "u", "t", "-", "o", "f">>), prop(props, <<"s", "e", "g", "m", "e", "n", "t", "s">>)), Num(0))
      IN  returns(
            IF truthy(status)
            THEN dl(<<"clock-status">>) \o <<"<dt>Clock</dt>">>
                 \o dd(<<"clock-name">>, escapeValue(name))
                 \o ddValue(<<"clock-status">>, toText(status))
                 \o <<DlEnd>>
            ELSE dl(<<"clock">>) \o <<"<dt>Clock</dt>">>
                 \o dd(<<"clock-name">>, escapeValue(name))
                 \o dd(<<"from">>, toText(from))
                 \o dd(<<"out-of">>, toText(outOf))
                 \o dd(<<"to">>, toText(to))
                 \o dd(<<"out-of">>, toText(outOf))
                 \o <<DlEnd>>))

parseAssetBlock(line) ==
    const(parseProps(line), LAMBDA props :
      LET name    == orElse(prop(props, <<"n", "a", "m", "e">>), Str(<<>>))
          status  == orElse(prop(props, <<"s", "t", "a", "t", "u", "s">>), Str(<<>>))
          ability == prop(props, <<"a", "b", "i", "l", "i", "t", "y">>)
      IN  returns(
            dl(<<"asset">>) \o <<"<dt>Asset</dt>">>
            \o dd(<<"asset-name">>, escapeValue(name))
            \o ddValue(<<"asset-status">>, toText(status))
            \o (IF ability # Undefined THEN dd(<<"asset-ability">>, toText(ability)) ELSE <<>>)
            \o <<DlEnd>>))

parseImpactBlock(line) ==
    const(parseProps(line), LAMBDA props :
      LET name      == orElse(prop(props, <<"n", "a", "m", "e">>), Str(<<>>))
          marked    == prop(props, <<"m", "a", "r", "k", "e", "d">>)
          markedStr == toLowerCase(toText(marked))
      IN  returns(
            dl(<<"impact">>) \o <<"<dt>Impact</dt>">>
            \o dd(<<"impact-name">>, escapeValue(name))
            \o ddValue(<<"impact-marked">>, markedStr)
            \o <<DlEnd>>))

\* /bad.spot/i, /no.initiative/i, /in.control/i and /initiative/i, on lower-cased text
BadSpot == lits(<<"b", "a", "d">>) \o <<dot>> \o lits(<<"s", "p", "o", "t">>)

NoInitiative == lits(<<"n", "o">>) \o <<dot>> \o lits(<<"i", "n", "i", "t", "i", "a", "t", "i", "v", "e">>)

InControl == lits(<<"i", "n">>) \o <<dot>> \o lits(<<"c", "o", "n", "t", "r", "o", "l">>)

Initiative == lits(<<"i", "n", "i", "t", "i", "a", "t", "i", "v", "e">>)

\* a classification that tests in control before bad spot
getInitClassControlFirst(init) ==
    IF test(InControl, toLowerCase(init)) \/ test(Initiative, toLowerCase(init))
    THEN "has-initiative"
    ELSE IF test(BadSpot, toLowerCase(init)) \/ test(NoInitiative, toLowerCase(init))
    THEN "no-initiative"
    ELSE "out-of-combat"

getInitClass(init) ==
    LET s == toLowerCase(init)
    IN  IF test(BadSpot, s) \/ test(NoInitiative, s) THEN "no-initiative"
        ELSE IF test(InControl, s) \/ test(Initiative, s) THEN "has-initiative"
        ELSE "out-of-combat"

getInitText(init) ==
    LET s == toLowerCase(init)
    IN  IF test(BadSpot, s) THEN "In a bad spot"
        ELSE IF test(NoInitiative, s) THEN "No initiative"
        ELSE IF test(InControl, s) THEN "In control"
        ELSE IF test(Initiative, s) THEN "Has initiative"
        ELSE "Out of combat"

parseInitiativeBlock(line) ==
    const(parseProps(line), LAMBDA props :
      LET from  == toText(orElse(prop(props, <<"f", "r", "o", "m">>), Str(<<"o", "u", "t", "-", "o", "f", "-", "c", "o", "m", "b", "a", "t">>)))
          to    == toText(orElse(prop(props, <<"t", "o">>), Str(<<"o", "u", "t", "-", "o", "f", "-", "c", "o", "m", "b", "a", "t">>)))
      IN  dl(<<"initiative">>) \o <<"<dt>Initiative</dt>">>
          \o dd(<<"from ", getInitClass(from)>>, <<getInitText(from)>>)
          \o dd(<<"to ", getInitClass(to)>>, <<getInitText(to)>>)
          \o <<DlEnd>>)

parseRerollBlock(line) ==
    const(parseProps(line), LAMBDA props :
      LET action == prop(props, <<"a", "c", "t", "i", "o", "n">>)
          vs1    == prop(props, <<"v", "s", "1">>)
          vs2    == prop(props, <<"v", "s", "2">>)
          old(key) == toText(orElse(prop(props, key), Str(<<"?">>)))
      IN  <<"<dl class=\"reroll\">", "<dt>Reroll</dt>">>
          \o (IF action # Undefined
              THEN dd(<<"action-die from">>, old(<<"o", "l", "d", "-", "a", "c", "t", "i", "o", "n">>))
                   \o dd(<<"action-die to">>, toText(action))
              ELSE <<>>)
          \o (IF vs1 # Undefined
              THEN dd(<<"challenge-die from vs1">>, old(<<"o", "l", "d", "-", "v", "s", "1">>))
                   \o dd(<<"challenge-die to vs1">>, toText(vs1))
              ELSE <<>>)
          \o (IF vs2 # Undefined
              THEN dd(<<"challenge-die from vs2">>, old(<<"o", "l", "d", "-", "v", "s", "2">>))
                   \o dd(<<"challenge-die to vs2">>, toText(vs2))
              ELSE <<>>)
          \o <<DlEnd>>)

\* add\s+(-?\d+)
SimpleAdd ==
    lits(<<"a", "d", "d">>) \o <<spaces,
      atom(class({"-"}, FALSE, FALSE, FALSE, FALSE), "?", 1, 0),
      atom(class({}, FALSE, FALSE, TRUE, FALSE), "+", 0, 1)>>

\* (?:\s+"([^"]+)")?, tried where the match of SimpleAdd ends
SimpleAddReason == <<spaces, lit("\""), noneOfGroup({"\""}, "+", 2), lit("\"")>>

\* the simpler format, add 1 "reason": the amount and the reason of the match
simpleAdd(line, simpleMatch, reason) ==
    [amount |-> Num(parseInt(group(simpleMatch, line, 1)).n),
     from   |-> Str(IF reason.ok THEN group(reason, line, 2) ELSE <<>>)]

parseAddBlock(line) ==
    const2(parseProps(line), match(SimpleAdd, line), LAMBDA props, simpleMatch :
      LET amount0 == orElse(prop(props, <<"a", "m", "o", "u", "n", "t">>), Num(0))
          from0   == orElse(prop(props, <<"f", "r", "o", "m">>), Str(<<>>))
          simple  == strictEquals(amount0, Num(0)) /\ simpleMatch.ok
          found   == simpleAdd(line, simpleMatch,
                               matchAt(SimpleAddReason, 1, line, simpleMatch.end, NoCaps))
          amount  == IF simple THEN found.amount ELSE amount0
          from    == IF simple THEN found.from ELSE from0
      IN  returns(
            dl(<<"add">>) \o <<"<dt>Add</dt>">>
            \o dd(<<"amount ", signClass(amount)>>, toText(mathAbs(amount)))
            \o (IF truthy(from) THEN dd(<<"from">>, escapeValue(from)) ELSE <<>>)
            \o <<DlEnd>>))

parseDiceExprBlock(line) ==
    const(parseProps(line), LAMBDA props :
      LET expr   == orElse(prop(props, <<"e", "x", "p", "r">>), Str(<<>>))
          result == orElse(prop(props, <<"r", "e", "s", "u", "l", "t">>), Str(<<>>))
      IN  returns(
            dl(<<"dice-expr">>) \o <<"<dt>Dice</dt>">>
            \o dd(<<"expr">>, escapeValue(expr))
            \o dd(<<"value">>, toText(result))
            \o <<DlEnd>>))

parseDetailBlock(line) ==
    LET text == trim(substring(line, 2, Len(line)))
    IN  <<"<aside class=\"detail\">", "<p>">> \o escapeHtml(text) \o <<"</p>", "</aside>">>

\* actor\s+name="([^"]+)"
ActorName ==
    lits(<<"a", "c", "t", "o", "r">>) \o <<spaces>> \o lits(<<"n", "a", "m", "e", "=", "\"">>)
    \o <<noneOfGroup({"\""}, "+", 1), lit("\"")>>

\* \[\[([^|]+)\|([^\]]+)\]\]
WikiLink ==
    lits(<<"[", "[">>) \o <<noneOfGroup({"|"}, "+", 1), lit("|"), noneOfGroup({"]"}, "+", 2)>>
    \o lits(<<"]", "]">>)

ArticleOpen == "<article class=\"iron-vault-mechanics\">"

\* a removal of the wrapper that takes the first closing tag it meets
stripFirstArticleEnd(html) ==
    LET opened == IF html # <<>> /\ Head(html) = ArticleOpen THEN Tail(html) ELSE html
        i      == indexOf(opened, ArticleEnd)
    IN  IF i # 0
        THEN SubSeq(opened, 1, i - 1) \o SubSeq(opened, i + 1, Len(opened))
        ELSE opened

\* html.replace(/^<article class="iron-vault-mechanics">/, '').replace(/<\/article>$/, '')
stripArticle(html) ==
    LET opened == IF html # <<>> /\ Head(html) = ArticleOpen THEN Tail(html) ELSE html
    IN  IF opened # <<>> /\ opened[Len(opened)] = ArticleEnd
        THEN SubSeq(opened, 1, Len(opened) - 1)
        ELSE opened

\* the statement keywords that make the parser collect a brace-delimited block
Collecting == {Keyword.move, Keyword.oracleGroup, Keyword.actor}

OneLineAndHyphen ==
    {Keyword.roll, Keyword.progressRoll, Keyword.meter, Keyword.burn, Keyword.xp,
     Keyword.track, Keyword.progress, Keyword.clock, Keyword.asset, Keyword.impact,
     Keyword.initiative, Keyword.position, Keyword.reroll, Keyword.add, Keyword.diceExpr,
     <<"-">>}

\* the statement keywords that are rendered from their own line alone
OneLine ==
    {Keyword.roll, Keyword.progressRoll, Keyword.meter, Keyword.burn, Keyword.xp,
     Keyword.track, Keyword.progress, Keyword.clock, Keyword.asset, Keyword.impact,
     Keyword.initiative, Keyword.position, Keyword.reroll, Keyword.add, Keyword.diceExpr,
     Keyword.detail}

\* whether the trimmed line is dispatched to a renderer
recognized(line) ==
    \E kw \in Collecting \cup OneLine \cup {Keyword.oracle} : startsWith(line, kw)

\* the renderer of a one-line statement; no keyword is a prefix of another, so at
\* most one test of the dispatch succeeds and their order decides nothing
renderLine(line) ==
    IF startsWith(line, Keyword.roll) THEN parseRollBlock(line)
    ELSE IF startsWith(line, Keyword.progressRoll) THEN parseProgressRollBlock(line)
    ELSE IF startsWith(line, Keyword.meter) THEN parseMeterBlock(line)
    ELSE IF startsWith(line, Keyword.burn) THEN parseBurnBlock(line)
    ELSE IF startsWith(line, Keyword.xp) THEN parseXpBlock(line)
    ELSE IF startsWith(line, Keyword.track) THEN parseTrackBlock(line)
    ELSE IF startsWith(line, Keyword.progress) THEN parseProgressBlock(line)
    ELSE IF startsWith(line, Keyword.clock) THEN parseClockBlock(line)
    ELSE IF startsWith(line, Keyword.asset) THEN parseAssetBlock(line)
    ELSE IF startsWith(line, Keyword.impact) THEN parseImpactBlock(line)
    ELSE IF startsWith(line, Keyword.initiative) \/ startsWith(line, Keyword.position)
    THEN parseInitiativeBlock(line)
    ELSE IF startsWith(line, Keyword.reroll) THEN parseRerollBlock(line)
    ELSE IF startsWith(line, Keyword.add) THEN parseAddBlock(line)
    ELSE IF startsWith(line, Keyword.diceExpr) THEN parseDiceExprBlock(line)
    ELSE parseDetailBlock(line)

RECURSIVE parseIronVaultBlock(_), parseActorBlock(_), results(_, _)

\* the while loop of parseIronVaultBlock from the 1-based cursor i on: the fragments
\* pushed to results, in the order they are pushed
results(lines, i) ==
    IF i > Len(lines) THEN <<>>
    ELSE LET line  == trim(lines[i])
             block == collectBlock(lines, i)
         IN  IF startsWith(line, Keyword.move)
             THEN <<parseMoveBlock(block.content)>> \o results(lines, block.endIndex + 1)
             ELSE IF startsWith(line, Keyword.oracleGroup)
             THEN <<parseOracleGroupBlock(block.content)>> \o results(lines, block.endIndex + 1)
             ELSE IF startsWith(line, Keyword.oracle)
             THEN IF includes(line, <<"{">>)
                  THEN <<parseOracleWithNested(block.content)>>
                       \o results(lines, block.endIndex + 1)
                  ELSE <<parseOracleBlock(line)>> \o results(lines, i + 1)
             ELSE IF startsWith(line, Keyword.actor)
             THEN <<parseActorBlock(block.content)>> \o results(lines, block.endIndex + 1)
             ELSE IF \E kw \in OneLine : startsWith(line, kw)
             THEN <<renderLine(line)>> \o results(lines, i + 1)
             ELSE results(lines, i + 1)

parseIronVaultBlock(content) ==
    LET lines == split(trim(content), "\n")
    IN  returns(<<ArticleOpen>> \o concat(results(lines, 1)) \o <<ArticleEnd>>)

parseActorBlock(content) ==
    const(match(ActorName, content), LAMBDA nameMatch :
      const(IF nameMatch.ok THEN group(nameMatch, content, 1) ELSE <<"A", "c", "t", "o", "r">>, LAMBDA name :
        const(match(WikiLink, name), LAMBDA linkMatch :
          LET slug        == IF linkMatch.ok THEN pathToSlug(group(linkMatch, name, 1)) ELSE <<>>
              displayName == IF linkMatch.ok THEN group(linkMatch, name, 2) ELSE name
              braceStart  == indexOf(content, "{") - 1
              braceEnd    == lastIndexOf(content, "}") - 1
              inner       == trim(substring(content, braceStart + 1, braceEnd))
              innerContent ==
                  IF braceStart # -1 /\ braceEnd # -1 /\ inner # <<>>
                  THEN stripArticle(parseIronVaultBlock(inner))
                  ELSE <<>>
              nameHtml    == IF slug # <<>> THEN anchor(slug, Str(displayName))
                             ELSE escapeHtml(displayName)
          IN  returns(
                <<"<section class=\"actor\">", "<header>", "<span>">> \o nameHtml
                \o <<"</span>", "</header>", "<div>">> \o innerContent
                \o <<"</div>", "</section>">>))))

(***************************************************************************)
(* SpecOutcome: the outcome classifier on every triple of small integers.  *)
(***************************************************************************)
DieRange == (0 - MaxDie)..MaxDie

Tiers == {"strong-hit", "weak-hit", "miss"}

InitOutcome ==
    /\ fn = ""
    /\ arg \in [score : DieRange, vs1 : DieRange, vs2 : DieRange]
    /\ ret = ""

CallGetOutcomeInline ==
    /\ fn = ""
    /\ fn' = "getOutcomeInline"
    /\ ret' = getOutcomeInline(arg.score, arg.vs1, arg.vs2)
    /\ UNCHANGED arg

CallGetOutcomeBlock ==
    /\ fn = ""
    /\ fn' = "getOutcomeBlock"
    /\ ret' = getOutcomeBlock(arg.score, arg.vs1, arg.vs2)
    /\ UNCHANGED arg

NextOutcome == CallGetOutcomeInline \/ CallGetOutcomeBlock

SpecOutcome == InitOutcome /\ [][NextOutcome]_vars

\* C1: both copies of getOutcome return exactly one of the three tiers; strong-hit
\* iff the score exceeds both challenge values, miss iff it exceeds neither (a tie
\* does not exceed), weak-hit in every remaining case.
OutcomeTotal ==
    fn \in {"getOutcomeInline", "getOutcomeBlock"} =>
        LET beats1 == arg.score > arg.vs1
            beats2 == arg.score > arg.vs2
        IN  /\ ret \in Tiers
            /\ (ret = "strong-hit") <=> (beats1 /\ beats2)
            /\ (ret = "miss") <=> (arg.score <= arg.vs1 /\ arg.score <= arg.vs2)
            /\ (ret = "weak-hit") <=> ((beats1 \/ beats2) /\ ~(beats1 /\ beats2))

\* C1 witness: the block copy classified a score that ties one challenge value and
\* beats the other
OutcomeTieReached ==
    /\ fn = "getOutcomeBlock"
    /\ arg.score = arg.vs1
    /\ arg.score > arg.vs2
    /\ ret = "weak-hit"

(***************************************************************************)
(* SpecEscape: both copies of escapeHtml on every short string over an     *)
(* alphabet that holds the four special characters, the letters of the     *)
(* entity &lt; and the escaped path separator.                             *)
(***************************************************************************)
EscAlphabet == {"&", "<", ">", "\"", "l", "t", ";", "\\", "/"}

InitEscape ==
    /\ fn = ""
    /\ arg \in StrUpTo(EscAlphabet, MaxEscLen)
    /\ ret = <<>>

CallEscapeHtmlInline ==
    /\ fn = ""
    /\ fn' = "escapeHtmlInline"
    /\ ret' = escapeHtmlInline(arg)
    /\ UNCHANGED arg

CallEscapeHtml ==
    /\ fn = ""
    /\ fn' = "escapeHtml"
    /\ ret' = escapeHtml(arg)
    /\ UNCHANGED arg

NextEscape == CallEscapeHtmlInline \/ CallEscapeHtml

SpecEscape == InitEscape /\ [][NextEscape]_vars

Entities == {Amp, Lt, Gt, Quot}

\* an entity of the escape routine starts at position i of s
entityAt(s, i) ==
    \E e \in Entities : i + Len(e) - 1 <= Len(s) /\ SubSeq(s, i, i + Len(e) - 1) = e

\* no raw <, > or " in s, and every & of s opens one of the four entities
noRawSpecials(s) ==
    \A i \in 1..Len(s) :
        /\ s[i] \notin {"<", ">", "\""}
        /\ s[i] = "&" => entityAt(s, i)

\* C8: the output of either escapeHtml holds no raw <, > or ", and every & in it is
\* the first character of &amp;, &lt;, &gt; or &quot;.
EscapeSafe ==
    fn \in {"escapeHtmlInline", "escapeHtml"} => noRawSpecials(ret)

\* C8 witness: an input that already is the entity &lt; was escaped to &amp;lt;
EscapeEntityReached ==
    /\ fn = "escapeHtml"
    /\ arg = Lt
    /\ ret = Amp \o <<"l", "t", ";">>

(***************************************************************************)
(* Reading a rendered fragment back.                                       *)
(***************************************************************************)
\* the tokens of html after the first token `open`, up to the next token `close`
between(html, open, close) ==
    LET i    == indexOf(html, open)
        rest == SubSeq(html, i + 1, Len(html))
        j    == indexOf(rest, close)
    IN  SubSeq(rest, 1, j - 1)

hasToken(html, tok) == indexOf(html, tok) # 0

\* the value of the first href attribute of html
hrefOf(html) == between(html, "<a href=\"", "\" class=\"")

(***************************************************************************)
(* SpecBlock: parseIronVaultBlock on every block of at most MaxStatements  *)
(* statements drawn from a pool: lines no keyword begins, a detail line, a *)
(* meter, an oracle, a meter whose name is written as a number, a move     *)
(* with a roll and a detail in its body, two actors and an oracle group.   *)
(***************************************************************************)
\* parseIronVaultBlock is checked on every block of at most this many statements
MaxStatements == 2

\* a statement of the input: what it is, its text, and for an actor or an oracle
\* group the texts of the statements or oracles written in its body
statement(kind, text, parts) == [kind |-> kind, text |-> text, parts |-> parts]

\* the lines of a body, each indented, between a header and the closing brace
braced(header, parts) ==
    join(<<header \o <<" ", "{">>>> \o [i \in 1..Len(parts) |-> <<" ", " ">> \o parts[i]] \o <<<<"}">>>>,
         <<"\n">>)

DetailA == <<"-", " ", "a">>

DetailB == <<" ", " ", "-", " ", "b", "<">>

MeterLine == <<"m", "e", "t", "e", "r", " ", "n", "a", "m", "e", "=", "\"", "H", "\"", " ", "f", "r", "o", "m", "=", "3", " ", "t", "o", "=", "2">>

OracleLine == <<"o", "r", "a", "c", "l", "e", " ", "n", "a", "m", "e", "=", "\"", "[", "O", "]", "(", "d", ":", "o", ")", "\"", " ", "r", "e", "s", "u", "l", "t", "=", "\"", "r", "\"", " ", "r", "o", "l", "l", "=", "7">>

OracleOne == <<"o", "r", "a", "c", "l", "e", " ", "n", "a", "m", "e", "=", "\"", "P", "\"", " ", "r", "e", "s", "u", "l", "t", "=", "\"", "s", "\"", " ", "r", "o", "l", "l", "=", "1">>

OracleTwo == <<"o", "r", "a", "c", "l", "e", " ", "n", "a", "m", "e", "=", "\"", "Q", "\"", " ", "r", "e", "s", "u", "l", "t", "=", "\"", "t", "\"", " ", "r", "o", "l", "l", "=", "2">>

MoveText ==
    braced(<<"m", "o", "v", "e", " ", "\"", "[", "S", "]", "(", "d", ":", "s", ")", "\"">>, <<<<"r", "o", "l", "l", " ", "\"", "e", "\"", " ", "a", "c", "t", "i", "o", "n", "=", "4", " ", "a", "d", "d", "s", "=", "0", " ", "s", "t", "a", "t", "=", "2", " ", "v", "s", "1", "=", "3", " ", "v", "s", "2", "=", "9">>, DetailA>>)

GroupText(oracles) == braced(<<"o", "r", "a", "c", "l", "e", "-", "g", "r", "o", "u", "p", " ", "n", "a", "m", "e", "=", "\"", "G", "\"">>, oracles)

ActorText(body) == braced(<<"a", "c", "t", "o", "r", " ", "n", "a", "m", "e", "=", "\"", "[", "[", "p", "/", "C", ".", "m", "d", "|", "C", "]", "]", "\"">>, body)

Unrecognized == {<<>>, <<"m", "e", "t", "e", "r">>, <<"-", "x", " ", "}">>}

ActorBodies == {<<MeterLine, DetailA>>, <<DetailA, GroupText(<<OracleTwo, OracleOne>>)>>}

OracleLists == {<<OracleOne, OracleTwo>>}

StatementPool ==
    {statement("unrecognized", t, <<>>) : t \in Unrecognized}
    \cup {statement("line", t, <<>>) : t \in {DetailB, MeterLine, OracleLine}}
    \cup {statement("numeric-name", <<"m", "e", "t", "e", "r", " ", "n", "a", "m", "e", "=", "5">>, <<>>)}
    \cup {statement("move", MoveText, <<>>)}
    \cup {statement("actor", ActorText(b), b) : b \in ActorBodies}
    \cup {statement("oracle-group", GroupText(o), o) : o \in OracleLists}

blockInput(stmts) ==
    [stmts |-> stmts, content |-> join([i \in 1..Len(stmts) |-> stmts[i].text], <<"\n">>)]

InitBlock ==
    /\ fn = ""
    /\ arg \in {blockInput(ss) : ss \in StrUpTo(StatementPool, MaxStatements)}
    /\ ret = <<>>

CallParseIronVaultBlock ==
    /\ fn = ""
    /\ fn' = "parseIronVaultBlock"
    /\ ret' = parseIronVaultBlock(arg.content)
    /\ UNCHANGED arg

NextBlock == CallParseIronVaultBlock

SpecBlock == InitBlock /\ [][NextBlock]_vars

onlyUnrecognized(stmts) == \A i \in 1..Len(stmts) : stmts[i].kind = "unrecognized"

fragmentsOf(text) == results(split(trim(text), "\n"), 1)

\* what a list of statements renders to when each is parsed on its own
eachAlone(texts) == concat([i \in 1..Len(texts) |-> concat(fragmentsOf(texts[i]))])

\* the tokens inside the <div> of an actor fragment
actorBody(fragment) == SubSeq(fragment, indexOf(fragment, "<div>") + 1, Len(fragment) - 2)

\* the tokens inside the <blockquote> of an oracle-group fragment
groupBody(fragment) ==
    SubSeq(fragment, indexOf(fragment, "<blockquote>") + 1, Len(fragment) - 2)

\* C6: whenever the call returns, its output is the article around one fragment for
\* each statement a keyword begins and none for the other lines, in the order
\* the statements are written; the fragment of an actor holds the fragments of
\* the statements of its body in their order, and the fragment of an oracle
\* group holds one oracle for each oracle written in it, in their order
FragmentsInSourceOrder ==
    fn = "parseIronVaultBlock" /\ ~threw(ret)
    => /\ ret = <<ArticleOpen>>
                \o eachAlone([i \in 1..Len(arg.stmts) |-> arg.stmts[i].text])
                \o <<ArticleEnd>>
       /\ \A i \in 1..Len(arg.stmts) :
            LET st  == arg.stmts[i]
                own == fragmentsOf(st.text)
            IN  /\ Len(own) = IF st.kind = "unrecognized" THEN 0 ELSE 1
                /\ st.kind = "actor" => actorBody(own[1]) = eachAlone(st.parts)
                /\ st.kind = "oracle-group" =>
                     /\ count(own[1], OracleOpen) = Len(st.parts)
                     /\ groupBody(own[1]) =
                          concat([j \in 1..Len(st.parts) |->
                                    groupBody(parseOracleGroupBlock(GroupText(<<st.parts[j]>>)))])

FragmentsInSourceOrderReached ==
    /\ fn = "parseIronVaultBlock"
    /\ ~threw(ret)
    /\ Len(arg.stmts) = MaxStatements
    /\ arg.stmts[1].kind = "actor"
    /\ arg.stmts[1].parts = <<DetailA, GroupText(<<OracleTwo, OracleOne>>)>>
    /\ arg.stmts[2].kind = "oracle-group"
    /\ indexOf(ret, "<section class=\"actor\">") = 2
    /\ lastIndexOf(ret, GroupOpen) > indexOf(ret, "</section>")

(***************************************************************************)
(* SpecSlug: the block parser's pathToSlug, and the link target the inline *)
(* parser writes for the same path when it is given no lookup table, on    *)
(* every short path over an alphabet with both separators, a blank, a      *)
(* parenthesis, an apostrophe, an upper-case letter and the .md extension. *)
(***************************************************************************)
SlugAlphabet == {"/", "\\", " ", "(", "'", "A", ".", "m", "d"}

InitSlug ==
    /\ fn = ""
    /\ arg \in StrUpTo(SlugAlphabet, MaxSlugLen)
    /\ ret = <<>>

CallPathToSlug ==
    /\ fn = ""
    /\ fn' = "pathToSlug"
    /\ ret' = pathToSlug(arg)
    /\ UNCHANGED arg

\* the link target of the inline code iv-track-create:T|<path>
CallRenderTrackCreate ==
    /\ fn = ""
    /\ fn' = "renderTrackCreate"
    /\ ret' = hrefOf(parseInlineMechanic(Tag.trackCreate \o <<":", "T", "|">> \o arg,
                                         NoFiles).html)
    /\ UNCHANGED arg

NextSlug == CallPathToSlug \/ CallRenderTrackCreate

SpecSlug == InitSlug /\ [][NextSlug]_vars

oneLeadingSlash(s) ==
    /\ s # <<>>
    /\ s[1] = "/"
    /\ Len(s) >= 2 => s[2] # "/"

slugClean(s) == \A i \in 1..Len(s) : ~isSpace(s[i]) /\ s[i] \notin {"(", ")", "'"}

\* C9 as stated: for every path, the empty one included, the block pathToSlug
\* returns a slug that starts with exactly one / and holds no blank, parenthesis
\* or apostrophe.
SlugShapeAlways ==
    fn = "pathToSlug" => oneLeadingSlash(ret) /\ slugClean(ret)

\* C9 amended: that shape holds for every non-empty path (paths that begin with
\* slashes or escaped separators included); for the empty path the result is "#".
SlugShape ==
    fn = "pathToSlug" =>
        IF arg = <<>> THEN ret = Hash
        ELSE oneLeadingSlash(ret) /\ slugClean(ret)

\* C9 witness: the path \//A, an escaped separator and a slash, became /a
SlugSlashesReached ==
    /\ fn = "pathToSlug"
    /\ arg = <<"\\", "/", "/", "A">>
    /\ ret = <<"/", "a">>

\* C10: the link target the inline parser writes without a lookup table is the
\* slug the block parser's pathToSlug gives for the same path.
InlineTargetIsBlockSlug ==
    fn = "renderTrackCreate" => ret = pathToSlug(arg)

(***************************************************************************)
(* SpecMove: iv-move codes written from integers, parsed and rendered.     *)
(***************************************************************************)
\* the action die shows 1..MaxAction
MaxAction == 6
\* the stat is 0..MaxStat
MaxStat == 3
\* adds are -1..MaxAdds
MaxAdds == 2
\* each challenge die shows 1..MaxChallenge
MaxChallenge == 10

FaceDanger == <<"F", "a", "c", "e", " ", "D", "a", "n", "g", "e", "r">>

Edge == <<"e", "d", "g", "e">>

\* Name|Stat|action|statValue|adds|vs1|vs2
moveCode(m) ==
    Tag.move \o <<":">> \o join(<<FaceDanger, Edge, numToStr(m.action), numToStr(m.statValue),
                                 numToStr(m.adds), numToStr(m.vs1), numToStr(m.vs2)>>, <<"|">>)

InitMove ==
    /\ fn = ""
    /\ arg \in [action : 1..MaxAction, statValue : 0..MaxStat, adds : (0 - 1)..MaxAdds,
                vs1 : 1..MaxChallenge, vs2 : 1..MaxChallenge]
    /\ ret = Null

CallParseMove ==
    /\ fn = ""
    /\ fn' = "parseInlineMechanic"
    /\ ret' = parseInlineMechanic(moveCode(arg), NoFiles)
    /\ UNCHANGED arg

NextMove == CallParseMove

SpecMove == InitMove /\ [][NextMove]_vars

ScoreOpen == "<span class=\"iv-inline-score\">"

MatchSpan == "<span class=\"iv-inline-match\">match</span>"

\* the class list of the outer span, as tokens
classesOf(html) == between(html, "<span class=\"", "\">")

\* C2: an iv-move code renders the score min(10, action + statValue + adds), its
\* outer span carries the tier of that score against vs1 and vs2, and it carries
\* `match`, with the match span, exactly when vs1 = vs2.
MoveRendered ==
    fn = "parseInlineMechanic" =>
        LET sum   == arg.action + arg.statValue + arg.adds
            score == IF sum > 10 THEN 10 ELSE sum
            beats == {v \in {1, 2} : score > (IF v = 1 THEN arg.vs1 ELSE arg.vs2)}
            tier  == IF Cardinality(beats) = 2 THEN "strong-hit"
                     ELSE IF Cardinality(beats) = 1 THEN "weak-hit" ELSE "miss"
        IN  /\ ~ret.isNull
            /\ between(ret.html, ScoreOpen, SpanEnd) = numToStr(score)
            /\ classesOf(ret.html) =
                   <<"iv-inline-mechanics", " ", tier>>
                       \o (IF arg.vs1 = arg.vs2 THEN <<" ", "match">> ELSE <<>>)
            /\ hasToken(ret.html, MatchSpan) <=> (arg.vs1 = arg.vs2)

\* C2 witness: Face Danger|edge|4|3|0|3|5 rendered score 7, strong-hit, no match
MoveExampleReached ==
    /\ fn = "parseInlineMechanic"
    /\ arg = [action |-> 4, statValue |-> 3, adds |-> 0, vs1 |-> 3, vs2 |-> 5]
    /\ between(ret.html, ScoreOpen, SpanEnd) = <<"7">>
    /\ classesOf(ret.html) = <<"iv-inline-mechanics", " ", "strong-hit">>
    /\ ~hasToken(ret.html, MatchSpan)

(***************************************************************************)
(* SpecInline: parseInlineMechanic on codes of every kind with 1 up to     *)
(* MaxFields pipe-delimited fields, and on codes whose head is not a kind  *)
(* tag followed by a colon.                                                *)
(***************************************************************************)
\* the most fields a code carries
MaxFields == 6

\* the fields a code is written from: empty, a number, zero, text that is no number
\* and holds a character HTML reserves
FieldPool == {<<>>, <<"8">>, <<"0">>, <<"x", "<">>}

\* contents with and without colons, for the dispatch
ColonContents == {<<>>, <<"a">>, <<"a", ":", "b">>, <<":">>, <<"a", "|", "b", ":", "c">>}

GoodHeads == {t \o <<":">> : t \in KindTags}

BadHeads == {<<>>,
             Tag.move,
             <<"i", "v", "-", ":">>,
             <<"i", "v", "-", "b", "o", "g", "u", "s", ":">>,
             <<"i", "v", "-", "m", "o", "v", "e", "s", ":">>,
             <<"i", "v", "-", "M", "o", "v", "e", ":">>,
             <<"m", "o", "v", "e", ":">>,
             <<" ">> \o Tag.move \o <<":">>}

FieldLists == UNION {[1..k -> FieldPool] : k \in 1..MaxFields}

inlineInput(head, fields) ==
    [head |-> head, fields |-> fields, code |-> head \o join(fields, <<"|">>)]

InitInline ==
    /\ fn = ""
    /\ arg \in {inlineInput(h, f) : h \in GoodHeads, f \in FieldLists}
               \cup {inlineInput(h, split(c, "|")) : h \in GoodHeads \cup BadHeads, c \in ColonContents}
    /\ ret = Null

CallParseInlineMechanic ==
    /\ fn = ""
    /\ fn' = "parseInlineMechanic"
    /\ ret' = parseInlineMechanic(arg.code, NoFiles)
    /\ UNCHANGED arg

NextInline == CallParseInlineMechanic

SpecInline == InitInline /\ [][NextInline]_vars

\* C3: parseInlineMechanic returns null exactly when the code does not start with
\* iv-, holds no colon, or the text before its first colon is not one of the sixteen
\* kind tags; otherwise it returns a non-empty span (it opens with a span token and
\* ends with </span>).
NullIffNotOurs ==
    fn = "parseInlineMechanic" =>
        LET code   == arg.code
            colon  == indexOf(code, ":")
            notOur == \/ ~startsWith(code, IvPrefix)
                      \/ colon = 0
                      \/ SubSeq(code, 1, colon - 1) \notin KindTags
        IN  /\ ret.isNull <=> notOur
            /\ ~ret.isNull =>
                   /\ Len(ret.html) >= 2
                   /\ ret.html[Len(ret.html)] = SpanEnd
                   /\ SubSeq(ret.html, 1, 1) \in {<<"<span class=\"">>}
                          \cup {<<"<span class=\"iv-inline-mechanics " \o k \o "\">">> :
                                    k \in {"oracle", "burn", "track-create", "track-advance",
                                           "track-complete", "no-roll", "entity-create",
                                           "clock-create", "clock-advance", "clock-resolve",
                                           "dice-roll", "ooc"}}
                          \cup {<<"<span class=\"iv-inline-mechanics ">>}

\* C3 witness: a code with the prefix and a colon but an unknown kind gave null,
NullUnknownKindReached ==
    /\ fn = "parseInlineMechanic"
    /\ arg.head = <<"i", "v", "-", "b", "o", "g", "u", "s", ":">>
    /\ ret.isNull

\* C7: no character of a field reaches the output of the inline parser as a raw
\* <, >, " or &: every token of the output that is one of these characters belongs
\* to an entity of the escape routine.
InlineOutputEscaped ==
    (fn = "parseInlineMechanic" /\ ~ret.isNull) => noRawSpecials(ret.html)

(***************************************************************************)
(* The places where each renderer writes a field.  A slot is read back as  *)
(* the tokens after `open` (searched after the token `pre`, when given) up *)
(* to `close`.  idx is the 1-based position of the field it shows; type is *)
(* how the renderer reads it:                                              *)
(*   "num"   parseInt(parts[i]) || 0       "str"    parts[i] || ''         *)
(*   "steps" parseInt(parts[i]) || 1       "initTo" parts[1] || parts[0]   *)
(*   "text0" parts[i] || '0'               "boxes"  floor(parseInt || 0/4) *)
(***************************************************************************)
after(html, tok) == SubSeq(html, indexOf(html, tok) + 1, Len(html))

slot(kind, idx, type, pre, open, close) ==
    [kind |-> kind, idx |-> idx, type |-> type, pre |-> pre, open |-> open, close |-> close]


Slots == {
    slot(Tag.move, 1, "str", "", "<span class=\"iv-inline-move-name iv-inline-link\">", SpanEnd),
    slot(Tag.move, 2, "str", "", "<span class=\"iv-inline-stat\">(", ")</span>"),
    slot(Tag.move, 6, "num", "", "<span class=\"iv-inline-challenge-die vs1\">", SpanEnd),
    slot(Tag.move, 7, "num", "", "<span class=\"iv-inline-challenge-die vs2\">", SpanEnd),
    slot(Tag.oracle, 1, "str", "", "<span class=\"iv-inline-oracle-name iv-inline-link\">", SpanEnd),
    slot(Tag.oracle, 2, "str", "", "<span>(", ")</span>"),
    slot(Tag.oracle, 3, "str", "", "<span class=\"iv-inline-oracle-result\">", SpanEnd),
    slot(Tag.meter, 1, "str", "", "<span class=\"iv-inline-meter-name\">", ":</span>"),
    slot(Tag.meter, 2, "num", "", "<span class=\"iv-inline-meter-change\">", Arrow),
    slot(Tag.meter, 3, "num", "", Arrow, SpanEnd),
    slot(Tag.burn, 1, "num", "", "<span class=\"iv-inline-burn-change\">", Arrow),
    slot(Tag.burn, 2, "num", "", Arrow, SpanEnd),
    slot(Tag.initiative, 1, "str", "", "<span class=\"iv-inline-initiative-change\">", Arrow),
    slot(Tag.initiative, 2, "initTo", "", Arrow, SpanEnd),
    slot(Tag.trackCreate, 1, "str", "", "\">", "</a>"),
    slot(Tag.trackAdvance, 1, "str", "", "\">", "</a>"),
    slot(Tag.trackAdvance, 4, "boxes", "", " (", "/10)</span>"),
    slot(Tag.trackAdvance, 6, "steps", "", "<span class=\"iv-inline-track-progress\"> +", " ("),
    slot(Tag.trackComplete, 1, "str", "", "\">", "</a>"),
    slot(Tag.progress, 1, "str", "", "<span class=\"iv-inline-progress-name iv-inline-link\">",
         SpanEnd),
    slot(Tag.progress, 2, "num", "", "<span class=\"iv-inline-score\">", SpanEnd),
    slot(Tag.progress, 3, "num", "", "<span class=\"iv-inline-challenge-die vs1\">", SpanEnd),
    slot(Tag.progress, 4, "num", "", "<span class=\"iv-inline-challenge-die vs2\">", SpanEnd),
    slot(Tag.noroll, 1, "str", "", "<span class=\"iv-inline-move-name iv-inline-link\">", SpanEnd),
    slot(Tag.entityCreate, 1, "str", "", "<span class=\"iv-inline-entity-type\">", ":</span>"),
    slot(Tag.entityCreate, 2, "str", "", "\">", "</a>"),
    slot(Tag.clockCreate, 1, "str", "", "\">", "</a>"),
    slot(Tag.clockCreate, 2, "str", "", "<span class=\"iv-inline-clock-progress\">(0/",
         ")</span>"),
    slot(Tag.clockAdvance, 1, "str", "", "\">", "</a>"),
    slot(Tag.clockAdvance, 2, "text0", "", "<span class=\"iv-inline-clock-progress\">", Arrow),
    slot(Tag.clockAdvance, 3, "text0", "", Arrow, "/"),
    slot(Tag.clockAdvance, 4, "str", Arrow, "/", SpanEnd),
    slot(Tag.clockResolve, 1, "str", "", "\">", "</a>"),
    slot(Tag.dice, 1, "str", "", "<span class=\"iv-inline-dice-expression\">", SpanEnd),
    slot(Tag.dice, 2, "str", "", "<span class=\"iv-inline-dice-result\">", SpanEnd)}

slotValue(html, d) ==
    between(IF d.pre = "" THEN html ELSE after(html, d.pre), d.open, d.close)

\* the field is not written
missing(fields, i) == i > Len(fields)

\* the field is not written or is not the text of a number
unparsable(fields, i) == missing(fields, i) \/ parseInt(fields[i]).nan

MaxResolveLen == 4

ResolveAlphabet == {"/", "\\", "A", "a", "b", ".", "m", "d"}

SlugOfA == <<"/", "d", "o", "c", "s", "/", "a">>
SlugOfB == <<"/", "x", "/", "b">>

FilesA == [defined |-> TRUE, map |-> (<<"a">> :> SlugOfA)]
FilesAB == [defined |-> TRUE, map |-> (<<"a">> :> SlugOfA) @@ (<<"b">> :> SlugOfB)]

InitResolve ==
    /\ fn = ""
    /\ arg \in [path : StrUpTo(ResolveAlphabet, MaxResolveLen),
                files : {NoFiles, FilesA, FilesAB}]
    /\ ret = <<>>

CallResolvePathToSlug ==
    /\ fn = ""
    /\ fn' = "resolvePathToSlug"
    /\ ret' = resolvePathToSlug(arg.path, arg.files)
    /\ UNCHANGED arg

NextResolve == CallResolvePathToSlug

SpecResolve == InitResolve /\ [][NextResolve]_vars

hasSeparator(s) == \E i \in 1..Len(s) : s[i] \in {"/", "\\"}

\* the reference, extension stripped and lower-cased, is the key k itself or
\* ends with a separator followed by k
namesKey(path, k) ==
    LET p == toLowerCase(stripMd(path))
    IN  /\ ~hasSeparator(k)
        /\ Len(p) >= Len(k)
        /\ SubSeq(p, Len(p) - Len(k) + 1, Len(p)) = k
        /\ Len(p) > Len(k) => p[Len(p) - Len(k)] \in {"/", "\\"}

\* C11 as stated: a bare filename whose lower-cased basename is a key of the
\* table resolves to the entry's slug; without a table or without the key the
\* result is the direct transform; and a reference that contains a path
\* separator is always converted by the direct transform of the whole path.
SeparatorPathsDirect ==
    fn = "resolvePathToSlug" =>
        IF hasSeparator(arg.path)
        THEN ret = pathToSlugInline(arg.path)
        ELSE IF arg.files.defined /\ \E k \in DOMAIN arg.files.map : namesKey(arg.path, k)
             THEN \E k \in DOMAIN arg.files.map : namesKey(arg.path, k) /\ ret = arg.files.map[k]
             ELSE ret = pathToSlugInline(arg.path)

\* C11 amended: the table is consulted with the lower-cased last segment of the
\* reference (extension stripped), whether or not the reference contains a
\* path separator: a key found gives the entry's slug; no table or no such key
\* gives the direct transform of the whole reference.
ResolvedByLastSegment ==
    fn = "resolvePathToSlug" =>
        IF arg.files.defined /\ \E k \in DOMAIN arg.files.map : namesKey(arg.path, k)
        THEN \E k \in DOMAIN arg.files.map : namesKey(arg.path, k) /\ ret = arg.files.map[k]
        ELSE ret = pathToSlugInline(arg.path)

\* C11 witness: b/A, a path with a separator whose basename is a key,
\* resolved to the table's slug and not to the transform of the whole path
SeparatorPathLookedUp ==
    /\ fn = "resolvePathToSlug"
    /\ arg.path = <<"b", "/", "A">>
    /\ arg.files = FilesA
    /\ ret = SlugOfA
    /\ ret # pathToSlugInline(arg.path)

(***************************************************************************)
(* SpecProgress: parseIronVaultBlock on the one-line block                 *)
(*   progress name="[[Foo|Foo Track]]" rank=<rank> steps=<S> from=<F>      *)
(* for each rank of the table and an unknown one, written as a bare word   *)
(* or between double quotes, and small S and F.                            *)
(***************************************************************************)
MaxSteps == 3
MaxFrom == 9

RankNames == {<<"t", "r", "o", "u", "b", "l", "e", "s", "o", "m", "e">>, <<"d", "a", "n", "g", "e", "r", "o", "u", "s">>, <<"f", "o", "r", "m", "i", "d", "a", "b", "l", "e">>, <<"e", "x", "t", "r", "e", "m", "e">>, <<"e", "p", "i", "c">>, <<"o", "d", "d">>}

\* the table of ranks as the specification states it
ticksOfRank(rank) ==
    IF rank = <<"t", "r", "o", "u", "b", "l", "e", "s", "o", "m", "e">> THEN 12
    ELSE IF rank = <<"d", "a", "n", "g", "e", "r", "o", "u", "s">> THEN 8
    ELSE IF rank = <<"f", "o", "r", "m", "i", "d", "a", "b", "l", "e">> THEN 4
    ELSE IF rank = <<"e", "x", "t", "r", "e", "m", "e">> THEN 2
    ELSE IF rank = <<"e", "p", "i", "c">> THEN 1
    ELSE 4

progressLine(rank, quoted, steps, from) ==
    <<"p", "r", "o", "g", "r", "e", "s", "s", " ", "n", "a", "m", "e", "=", "\"", "[", "[", "F", "o", "o", "|", "F", "o", "o", " ", "T", "r", "a", "c", "k", "]", "]", "\"", " ", "r", "a", "n", "k", "=">>
    \o (IF quoted THEN <<"\"">> \o rank \o <<"\"">> ELSE rank)
    \o <<" ", "s", "t", "e", "p", "s", "=">> \o numToStr(steps) \o <<" ", "f", "r", "o", "m", "=">> \o numToStr(from)

InitProgress ==
    /\ fn = ""
    /\ arg \in [rank : RankNames, quoted : BOOLEAN, steps : 0..MaxSteps, from : 0..MaxFrom]
    /\ ret = <<>>

CallProgressLine ==
    /\ fn = ""
    /\ fn' = "parseIronVaultBlock"
    /\ ret' = parseIronVaultBlock(progressLine(arg.rank, arg.quoted, arg.steps, arg.from))
    /\ UNCHANGED arg

NextProgress == CallProgressLine

SpecProgress == InitProgress /\ [][NextProgress]_vars

\* the text of the first dd cell of html whose class attribute is exactly cls
cell(html, cls) ==
    LET i    == CHOOSE k \in 2..Len(html) :
                    /\ html[k] = cls /\ html[k - 1] = "<dd class=\""
                    /\ \A j \in 2..(k - 1) : ~(html[j] = cls /\ html[j - 1] = "<dd class=\"")
        rest == SubSeq(html, i + 2, Len(html))
    IN  SubSeq(rest, 1, indexOf(rest, "</dd>") - 1)

hasCell(html, cls) ==
    \E k \in 2..Len(html) : html[k] = cls /\ html[k - 1] = "<dd class=\""

\* C12: for the line progress ... rank=<rank> steps=<S> from=<F>, with the rank
\* written as in the claim's example (a bare word), the from cells show
\* floor(F/4) and F mod 4 and the to cells floor((F + T*S)/4) and (F + T*S) mod 4,
\* T being the table value of the rank (4 for an unknown rank); the example line
\* (dangerous, 2, 3) shows to-boxes 4, to-ticks 3, from-boxes 0, from-ticks 3.
ProgressCellsFromRankTable ==
    (fn = "parseIronVaultBlock" /\ ~arg.quoted) =>
        LET total == arg.from + ticksOfRank(arg.rank) * arg.steps
        IN  /\ cell(ret, "from-boxes") = numToStr(arg.from \div 4)
            /\ cell(ret, "from-ticks") = numToStr(arg.from % 4)
            /\ cell(ret, "to-boxes") = numToStr(total \div 4)
            /\ cell(ret, "to-ticks") = numToStr(total % 4)

(***************************************************************************)
(* SpecInitiative: parseInlineMechanic on iv-initiative:<from>|<to> and on *)
(* iv-initiative:<from> for position texts that hold the words the         *)
(* renderer looks for, alone, combined, in upper case and inside longer    *)
(* words.                                                                  *)
(***************************************************************************)
Positions ==
    {<<>>, <<"x">>, <<"i", "n", " ", "c", "o", "n", "t", "r", "o", "l">>, <<"I", "n", " ", "C", "o", "n", "t", "r", "o", "l">>, <<"b", "a", "d", " ", "s", "p", "o", "t">>, <<"B", "A", "D">>, <<"o", "u", "t", " ", "o", "f", " ", "c", "o", "m", "b", "a", "t">>,
     <<"a", "b", "o", "u", "t">>, <<"n", "o", " ", "i", "n", "i", "t", "i", "a", "t", "i", "v", "e">>, <<"h", "a", "s", " ", "i", "n", "i", "t", "i", "a", "t", "i", "v", "e">>, <<"I", "n", "i", "t", "i", "a", "t", "i", "v", "e">>, <<"n", "o">>, <<"u", "n", "k", "n", "o", "w", "n">>,
     <<"b", "a", "d", " ", "c", "o", "n", "t", "r", "o", "l">>, <<"o", "u", "t", " ", "b", "a", "d">>, <<"o", "u", "t", " ", "o", "f", " ", "c", "o", "n", "t", "r", "o", "l">>, <<"o", "u", "t", "n", "u", "m", "b", "e", "r", "e", "d">>, <<"b", "a", "d", "l", "y">>, <<"n", "o", "n", "e">>}

initiativeCode(from, to, piped) ==
    Tag.initiative \o <<":">> \o from \o (IF piped THEN <<"|">> \o to ELSE <<>>)

InitInitiative ==
    /\ fn = ""
    /\ arg \in {a \in [from : Positions, to : Positions, piped : BOOLEAN] :
                    ~a.piped => a.to = <<>>}
    /\ ret = Null

CallRenderInitiative ==
    /\ fn = ""
    /\ fn' = "parseInlineMechanic"
    /\ ret' = parseInlineMechanic(initiativeCode(arg.from, arg.to, arg.piped), NoFiles)
    /\ UNCHANGED arg

NextInitiative == CallRenderInitiative

SpecInitiative == InitInitiative /\ [][NextInitiative]_vars

\* the class the mechanics span carries after iv-inline-mechanics
mechanicsClass(html) == html[2]

\* C13: the class depends on the to value only, without regard to case and by
\* substring: control gives initiative-in-control, otherwise bad gives
\* initiative-bad-spot, otherwise out gives initiative-out-of-combat, otherwise
\* the class is initiative, for every to value that is written.
InitiativeClassByTo ==
    (fn = "parseInlineMechanic" /\ arg.piped /\ arg.to # <<>>) =>
        LET to == toLowerCase(arg.to)
        IN  /\ ~ret.isNull
            /\ mechanicsClass(ret.html) =
                 IF includes(to, <<"c", "o", "n", "t", "r", "o", "l">>) THEN "initiative-in-control"
                 ELSE IF includes(to, <<"b", "a", "d">>) THEN "initiative-bad-spot"
                 ELSE IF includes(to, <<"o", "u", "t">>) THEN "initiative-out-of-combat"
                 ELSE "initiative"

(***************************************************************************)
(* SpecBadMove: parseIronVaultBlock on blocks that begin with a move whose *)
(* name is not written between double quotes after the keyword: on one     *)
(* line, with a braced body, longer than fifty characters with characters  *)
(* to escape, with an empty name, or with a brace that is never closed;    *)
(* followed by at most MaxAfter further statements.                        *)
(***************************************************************************)
MaxAfter == 2

RollLine == <<"r", "o", "l", "l", " ", "\"", "e", "d", "g", "e", "\"", " ", "a", "c", "t", "i", "o", "n", "=", "4", " ", "a", "d", "d", "s", "=", "0", " ", "s", "t", "a", "t", "=", "2", " ", "v", "s", "1", "=", "3", " ", "v", "s", "2", "=", "9">>

NamelessMoves ==
    {<<"m", "o", "v", "e", " ", "x">>,
     <<"m", "o", "v", "e", " ", "\"", "\"">>,
     braced(<<"m", "o", "v", "e">>, <<DetailA>>),
     braced(<<"m", "o", "v", "e", " ", "n", "a", "m", "e", "=", "\"", "A", "<", "\\", "/", "B", "&", "\"">>, <<RollLine, DetailA>>),
     <<"m", "o", "v", "e", " ", "x", " ", "{">>}

AfterPool == {DetailA, MeterLine, MoveText, <<"-", "x", " ", "}">>}

InitBadMove ==
    /\ fn = ""
    /\ arg \in [move : NamelessMoves,
                after : UNION {[1..n -> AfterPool] : n \in 0..MaxAfter}]
    /\ ret = <<>>

CallParseBadMove ==
    /\ fn = ""
    /\ fn' = "parseIronVaultBlock"
    /\ ret' = parseIronVaultBlock(join(<<arg.move>> \o arg.after, <<"\n">>))
    /\ UNCHANGED arg

NextBadMove == CallParseBadMove

SpecBadMove == InitBadMove /\ [][NextBadMove]_vars

\* opening minus closing braces over the first n lines
RECURSIVE depthAfter(_, _)
depthAfter(lines, n) ==
    IF n = 0 THEN 0
    ELSE depthAfter(lines, n - 1) + count(lines[n], "{") - count(lines[n], "}")

\* the number of lines a header at line 1 spans: up to the line where the braces
\* opened so far are all closed, or all lines when that never happens
spanLength(lines) ==
    IF \E n \in 1..Len(lines) : depthAfter(lines, n) <= 0
    THEN CHOOSE n \in 1..Len(lines) :
            /\ depthAfter(lines, n) <= 0
            /\ \A m \in 1..(n - 1) : depthAfter(lines, m) > 0
    ELSE Len(lines)

blockLines(a) == split(join(<<a.move>> \o a.after, <<"\n">>), "\n")

moveSpan(a) == join(SubSeq(blockLines(a), 1, spanLength(blockLines(a))), <<"\n">>)

afterSpan(a) ==
    join(SubSeq(blockLines(a), spanLength(blockLines(a)) + 1, Len(blockLines(a))), <<"\n">>)

\* C14: a move without a quoted name does not throw and does not drop the rest
\* of the block: the output is the article around one error paragraph, which
\* shows the escaped first 50 characters of the collected span (all of it when
\* it is shorter), followed by the normal rendering of every statement after
\* the span.
NamelessMoveReported ==
    fn = "parseIronVaultBlock" =>
        LET span == moveSpan(arg)
            head == SubSeq(span, 1, min(50, Len(span)))
        IN  /\ ~threw(ret)
            /\ ret = <<ArticleOpen, "<p class=\"error\">", "Could not parse move: ">>
                     \o escapeHtml(head) \o <<"</p>">>
                     \o eachAlone(<<afterSpan(arg)>>) \o <<ArticleEnd>>

\* the same, for the blocks in which no quoted name follows a later move
\* keyword inside the collected span
NamelessMoveReportedUnlessNamedLater ==
    test(MoveName, moveSpan(arg)) \/ NamelessMoveReported
(***************************************************************************)
(* SpecCollect: collectBlock, and parseIronVaultBlock around it, on a move *)
(* header with no brace, an open brace or a stray closing brace, after at  *)
(* most one detail line and before at most MaxFollowing lines that open,   *)
(* close or over-close braces.                                             *)
(***************************************************************************)
MaxFollowing == 3

Headers == {<<"m", "o", "v", "e", " ", "\"", "M", "\"">>, <<"m", "o", "v", "e", " ", "\"", "M", "\"", " ", "{">>, <<"m", "o", "v", "e", " ", "\"", "M", "\"", " ", "}">>}

Following == {<<"-", " ", "a">>, <<"}">>, <<"}", "}">>, <<"-", " ", "b", " ", "{">>}

InitCollect ==
    /\ fn = ""
    /\ arg \in [pre : {<<>>, <<<<"-", " ", "p">>>>},
                header : Headers,
                following : UNION {[1..n -> Following] : n \in 0..MaxFollowing}]
    /\ ret = [content |-> <<>>, endIndex |-> 0, html |-> <<>>]

collectInput(a) == a.pre \o <<a.header>> \o a.following

\* collectBlock(lines, startIndex) at the header
CallCollectBlock ==
    /\ fn = ""
    /\ fn' = "collectBlock"
    /\ ret' = [content  |-> collectBlock(collectInput(arg), Len(arg.pre) + 1).content,
               endIndex |-> collectBlock(collectInput(arg), Len(arg.pre) + 1).endIndex,
               html     |-> <<>>]
    /\ UNCHANGED arg

CallParseAroundBlock ==
    /\ fn = ""
    /\ fn' = "parseIronVaultBlock"
    /\ ret' = [content |-> <<>>, endIndex |-> 0,
               html |-> parseIronVaultBlock(join(collectInput(arg), <<"\n">>))]
    /\ UNCHANGED arg

NextCollect == CallCollectBlock \/ CallParseAroundBlock

SpecCollect == InitCollect /\ [][NextCollect]_vars

\* the number of lines a header at line 1 spans when collection stops only at a
\* count of exactly zero
spanLengthToZero(lines) ==
    IF \E n \in 1..Len(lines) : depthAfter(lines, n) = 0
    THEN CHOOSE n \in 1..Len(lines) :
            /\ depthAfter(lines, n) = 0
            /\ \A m \in 1..(n - 1) : depthAfter(lines, m) # 0
    ELSE Len(lines)

\* collectBlock returned the n lines from the header on, and the top-level loop
\* rendered the lines before the header, those n lines as one statement, and the
\* lines after them, raising nothing
collected(n) ==
    LET first == Len(arg.pre) + 1
        lines == collectInput(arg)
        span  == join(SubSeq(lines, first, first + n - 1), <<"\n">>)
        rest  == join(SubSeq(lines, first + n, Len(lines)), <<"\n">>)
    IN  /\ fn = "collectBlock" =>
              /\ ret.content = span
              /\ ret.endIndex = first + n - 1
        /\ fn = "parseIronVaultBlock" =>
              /\ ~threw(ret.html)
              /\ ~hasToken(ret.html, "<p class=\"error\">")
              /\ ret.html = <<ArticleOpen>> \o eachAlone(arg.pre \o <<span, rest>>)
                            \o <<ArticleEnd>>

\* C15 as stated: from the header on, lines are consumed until the count of {
\* minus } over the collected lines is zero, all remaining lines when it never
\* is; no error is surfaced and the cursor resumes after the last collected line.
CollectedUntilCountIsZero ==
    fn # "" => collected(spanLengthToZero(<<arg.header>> \o arg.following))

\* C15 amended: lines are consumed while the count is positive, so collection
\* stops at the first line where the count is zero or below (at the header
\* itself when it closes more braces than it opens), and takes all remaining
\* lines when the count stays positive; no error is surfaced and the cursor
\* resumes after the last collected line.
CollectedWhileCountIsPositive ==
    fn # "" => collected(spanLength(<<arg.header>> \o arg.following))

\* C15 witness: after a detail line, a header with an open brace was closed by a
\* line with two closing braces, and the line after it was left to the loop
OverClosedReached ==
    /\ fn = "collectBlock"
    /\ arg.pre # <<>>
    /\ arg.header = <<"m", "o", "v", "e", " ", "\"", "M", "\"", " ", "{">>
    /\ arg.following = <<<<"-", " ", "a">>, <<"}", "}">>, <<"-", " ", "a">>>>
    /\ ret.endIndex = 4
    /\ ret.content = <<"m", "o", "v", "e", " ", "\"", "M", "\"", " ", "{">> \o <<"\n">> \o <<"-", " ", "a">> \o <<"\n">> \o <<"}", "}">>

(***************************************************************************)
(* SpecMoveRoll: parseIronVaultBlock on a named move whose body is a       *)
(* detail line alone or a roll clause and a detail line, the attributes of *)
(* the roll written in the order of the renderer's pattern or in another   *)
(* order, with small dice and an adds value of either sign.                *)
(***************************************************************************)
MaxRollDie == 3
MaxRollStat == 2
MaxRollAdds == 1

\* the attribute names, in the order they are written
RollOrders ==
    {<<"action", "adds", "stat", "vs1", "vs2">>,
     <<"action", "stat", "adds", "vs1", "vs2">>,
     <<"vs2", "vs1", "stat", "adds", "action">>}

attrName(a) ==
    IF a = "action" THEN <<"a", "c", "t", "i", "o", "n">> ELSE IF a = "adds" THEN <<"a", "d", "d", "s">>
    ELSE IF a = "stat" THEN <<"s", "t", "a", "t">> ELSE IF a = "vs1" THEN <<"v", "s", "1">> ELSE <<"v", "s", "2">>

rollClause(a) ==
    <<"r", "o", "l", "l", " ", "\"", "e", "d", "g", "e", "\"">>
    \o concat([i \in 1..5 |-> <<" ">> \o attrName(a.order[i]) \o <<"=">>
                              \o numToStr(a[a.order[i]])])

moveWithBody(a) ==
    braced(<<"m", "o", "v", "e", " ", "\"", "[", "S", "t", "r", "i", "k", "e", "]", "(", "d", ":", "s", ")", "\"">>, IF a.hasRoll THEN <<rollClause(a), DetailA>> ELSE <<DetailA>>)

InitMoveRoll ==
    /\ fn = ""
    /\ arg \in {a \in [hasRoll : BOOLEAN, order : RollOrders, action : 1..MaxRollDie,
                       adds : (-MaxRollAdds)..MaxRollAdds, stat : 1..MaxRollStat,
                       vs1 : 1..MaxRollDie, vs2 : 1..MaxRollDie] :
                    ~a.hasRoll => /\ a.order = <<"action", "adds", "stat", "vs1", "vs2">>
                                  /\ a.action = 1 /\ a.adds = 0 /\ a.stat = 1
                                  /\ a.vs1 = 1 /\ a.vs2 = 1}
    /\ ret = <<>>

CallParseMoveBlock ==
    /\ fn = ""
    /\ fn' = "parseIronVaultBlock"
    /\ ret' = parseIronVaultBlock(moveWithBody(arg))
    /\ UNCHANGED arg

NextMoveRoll == CallParseMoveBlock

SpecMoveRoll == InitMoveRoll /\ [][NextMoveRoll]_vars

outcomeOf(score, vs1, vs2) ==
    IF score > vs1 /\ score > vs2 THEN "strong-hit"
    ELSE IF score > vs1 \/ score > vs2 THEN "weak-hit"
    ELSE "miss"

NameOnlyMove == "<details class=\"move\" open>"

\* C16: the name-only details element is rendered exactly when the body has no
\* roll clause; when it has one, whatever the order of its attributes and the
\* sign of its numbers, the details class is move <outcome>[ match] and the dl
\* class roll <outcome>[ match], the score min(10, action + stat + adds) and
\* match is present exactly when vs1 = vs2.
RollClauseAlwaysRendered ==
    fn = "parseIronVaultBlock" =>
        LET score   == min(10, arg.action + arg.stat + arg.adds)
            classes == <<outcomeOf(score, arg.vs1, arg.vs2)>>
                       \o (IF arg.vs1 = arg.vs2 THEN <<" match">> ELSE <<>>)
        IN  /\ hasToken(ret, NameOnlyMove) <=> ~arg.hasRoll
            /\ arg.hasRoll =>
                 /\ between(ret, "<details class=\"", "\" open>") = <<"move ">> \o classes
                 /\ between(ret, "<dl class=\"", "\">") = <<"roll ">> \o classes
                 /\ cell(ret, "score") = numToStr(score)

(***************************************************************************)
(* SpecTrack: parseIronVaultBlock on the one-line block                    *)
(*   track name="[[t/T.md|T]]" [status="completed"] [from-boxes=..]        *)
(*         [from-ticks=..] [to-boxes=..] [to-ticks=..]                     *)
(* each attribute written or left out, with small values.                  *)
(***************************************************************************)
MaxBoxes == 2

\* an attribute that is written with value v is <<v>>, one that is not written <<>>
Written(values) == {<<>>} \cup {<<v>> : v \in values}

attribute(name, w) == IF w = <<>> THEN <<>> ELSE <<" ">> \o name \o <<"=">> \o numToStr(w[1])

trackLine(a) ==
    <<"t", "r", "a", "c", "k", " ", "n", "a", "m", "e", "=", "\"", "[", "[", "t", "/", "T", ".", "m", "d", "|", "T", "]", "]", "\"">>
    \o (IF a.status THEN <<" ", "s", "t", "a", "t", "u", "s", "=", "\"", "c", "o", "m", "p", "l", "e", "t", "e", "d", "\"">> ELSE <<>>)
    \o attribute(<<"f", "r", "o", "m", "-", "b", "o", "x", "e", "s">>, a.fromBoxes) \o attribute(<<"f", "r", "o", "m", "-", "t", "i", "c", "k", "s">>, a.fromTicks)
    \o attribute(<<"t", "o", "-", "b", "o", "x", "e", "s">>, a.toBoxes) \o attribute(<<"t", "o", "-", "t", "i", "c", "k", "s">>, a.toTicks)

InitTrack ==
    /\ fn = ""
    /\ arg \in [status : BOOLEAN,
                fromBoxes : Written(0..MaxBoxes), fromTicks : Written(0..MaxBoxes),
                toBoxes : Written(0..MaxBoxes), toTicks : Written(0..MaxBoxes)]
    /\ ret = <<>>

CallParseTrackBlock ==
    /\ fn = ""
    /\ fn' = "parseIronVaultBlock"
    /\ ret' = parseIronVaultBlock(trackLine(arg))
    /\ UNCHANGED arg

NextTrack == CallParseTrackBlock

SpecTrack == InitTrack /\ [][NextTrack]_vars

shown(w) == IF w = <<>> THEN <<"0">> ELSE numToStr(w[1])

\* C17: the track-status form is emitted exactly when the line has a status
\* attribute; otherwise the track form is emitted and its from-boxes, from-ticks,
\* to-boxes and to-ticks cells show the values of the attributes of those names
\* written on the line, 0 only for an attribute that is absent.
TrackCellsShowAttributes ==
    fn = "parseIronVaultBlock" =>
        IF arg.status
        THEN /\ between(ret, "<dl class=\"", "\">") = <<"track-status">>
             /\ ~hasCell(ret, "from-boxes")
        ELSE /\ between(ret, "<dl class=\"", "\">") = <<"track">>
             /\ cell(ret, "from-boxes") = shown(arg.fromBoxes)
             /\ cell(ret, "from-ticks") = shown(arg.fromTicks)
             /\ cell(ret, "to-boxes") = shown(arg.toBoxes)
             /\ cell(ret, "to-ticks") = shown(arg.toTicks)

(***************************************************************************)
(* SpecReroll: parseIronVaultBlock on the one-line block                   *)
(*   reroll [action=..] [old-action=..] [vs1=..] [old-vs1=..] [vs2=..]     *)
(* each attribute written or left out, the old values written after or     *)
(* before the new ones.                                                    *)
(***************************************************************************)
MaxRerollDie == 2

rerollLine(a) ==
    <<"r", "e", "r", "o", "l", "l">>
    \o (IF a.oldFirst
        THEN attribute(<<"o", "l", "d", "-", "a", "c", "t", "i", "o", "n">>, a.oldAction) \o attribute(<<"a", "c", "t", "i", "o", "n">>, a.action)
             \o attribute(<<"o", "l", "d", "-", "v", "s", "1">>, a.oldVs1) \o attribute(<<"v", "s", "1">>, a.vs1)
        ELSE attribute(<<"a", "c", "t", "i", "o", "n">>, a.action) \o attribute(<<"o", "l", "d", "-", "a", "c", "t", "i", "o", "n">>, a.oldAction)
             \o attribute(<<"v", "s", "1">>, a.vs1) \o attribute(<<"o", "l", "d", "-", "v", "s", "1">>, a.oldVs1))
    \o attribute(<<"v", "s", "2">>, a.vs2)

\* a line of the keyword alone is not dispatched: at least one attribute is written
InitReroll ==
    /\ fn = ""
    /\ arg \in {a \in [oldFirst : BOOLEAN,
                       action : Written(1..MaxRerollDie), oldAction : Written(1..MaxRerollDie),
                       vs1 : Written(1..MaxRerollDie), oldVs1 : Written(1..MaxRerollDie),
                       vs2 : Written(1..MaxRerollDie)] :
                    rerollLine(a) # <<"r", "e", "r", "o", "l", "l">>}
    /\ ret = <<>>

CallParseRerollBlock ==
    /\ fn = ""
    /\ fn' = "parseIronVaultBlock"
    /\ ret' = parseIronVaultBlock(rerollLine(arg))
    /\ UNCHANGED arg

NextReroll == CallParseRerollBlock

SpecReroll == InitReroll /\ [][NextReroll]_vars

\* the from and to cells of one die are present exactly when new is written; to
\* shows new, from shows old when it is written and ? when it is not
rerollPair(html, fromClass, toClass, new, old) ==
    /\ hasCell(html, fromClass) <=> new # <<>>
    /\ hasCell(html, toClass) <=> new # <<>>
    /\ new # <<>> =>
         /\ cell(html, toClass) = numToStr(new[1])
         /\ cell(html, fromClass) = IF old = <<>> THEN <<"?">> ELSE numToStr(old[1])

\* C18: a from/to pair is emitted for each of action, vs1, vs2 exactly when that
\* attribute is written on the line; the to cell shows its value and the from
\* cell the value of old-action, old-vs1 or old-vs2 when that is written, and ?
\* only when it is absent.
RerollCellsShowOldAndNew ==
    fn = "parseIronVaultBlock" =>
        /\ rerollPair(ret, "action-die from", "action-die to", arg.action, arg.oldAction)
        /\ rerollPair(ret, "challenge-die from vs1", "challenge-die to vs1", arg.vs1, arg.oldVs1)
        /\ rerollPair(ret, "challenge-die from vs2", "challenge-die to vs2", arg.vs2, <<>>)

(***************************************************************************)
(* SpecProps: parseProps on lines of at most MaxPairs attribute pairs over *)
(* the keys a and b, each written with a quoted string or with a number,   *)
(* in every order.                                                         *)
(***************************************************************************)
MaxPairs == 3

\* a pair as it is written, with the value it stands for
PairPool ==
    {[k |-> "a", text |-> <<"a", "=", "\"", "s", "\"">>, v |-> Str(<<"s">>)],
     [k |-> "a", text |-> <<"a", "=", "\"", "t", "\"">>, v |-> Str(<<"t">>)],
     [k |-> "a", text |-> <<"a", "=", "1">>, v |-> Num(1)],
     [k |-> "a", text |-> <<"a", "=", "-", "2">>, v |-> Num(-2)],
     [k |-> "b", text |-> <<"b", "=", "\"", "\"">>, v |-> Str(<<>>)],
     [k |-> "b", text |-> <<"b", "=", "7">>, v |-> Num(7)]}

propsLine(pairs) == <<"m", "e", "t", "e", "r">> \o concat([i \in 1..Len(pairs) |-> <<" ">> \o pairs[i].text])

InitProps ==
    /\ fn = ""
    /\ arg \in UNION {[1..n -> PairPool] : n \in 0..MaxPairs}
    /\ ret = [a |-> Undefined, b |-> Undefined]

\* the map parseProps returns, read at its two keys
CallParseProps ==
    /\ fn = ""
    /\ fn' = "parseProps"
    /\ ret' = [a |-> prop(parseProps(propsLine(arg)), <<"a">>),
               b |-> prop(parseProps(propsLine(arg)), <<"b">>)]
    /\ UNCHANGED arg

NextProps == CallParseProps

SpecProps == InitProps /\ [][NextProps]_vars

\* the positions of the pairs of key k written with a number, or with a string
written(pairs, k, type) == {i \in 1..Len(pairs) : pairs[i].k = k /\ pairs[i].v.t = type}

lastWritten(pairs, k, type) ==
    pairs[CHOOSE i \in written(pairs, k, type) : \A j \in written(pairs, k, type) : j <= i].v

\* C19: the map holds, for each key, the number of the last key=number pair when
\* the line has one, wherever the quoted pairs of that key stand; otherwise the
\* string of the last key="string" pair; and nothing for a key not written.
NumberWinsThenLast ==
    fn = "parseProps" =>
        \A k \in {"a", "b"} :
            ret[k] = IF written(arg, k, "number") # {} THEN lastWritten(arg, k, "number")
                     ELSE IF written(arg, k, "string") # {} THEN lastWritten(arg, k, "string")
                     ELSE Undefined

\* C19 witness: a was written as a number, then as another number, then as a
\* string, and the map holds the second number
NumberBeforeStringReached ==
    /\ fn = "parseProps"
    /\ Len(arg) = 3
    /\ arg[1].text = <<"a", "=", "1">> /\ arg[2].text = <<"a", "=", "-", "2">> /\ arg[3].text = <<"a", "=", "\"", "s", "\"">>
    /\ ret.a = Num(-2)
    /\ ret.b = Undefined

(***************************************************************************)
(* SpecInitiativeBlock: parseIronVaultBlock on the one-line blocks         *)
(*   initiative [from="<F>"] [to="<T>"]   and   position ...               *)
(* for values that hold one of the phrases the renderer looks for, two of  *)
(* them, none, or nothing, and for attributes left out.                    *)
(***************************************************************************)
InitValues ==
    {<<"b", "a", "d", " ", "s", "p", "o", "t">>, <<"B", "A", "D", "-", "S", "P", "O", "T">>, <<"n", "o", " ", "i", "n", "i", "t", "i", "a", "t", "i", "v", "e">>, <<"i", "n", " ", "c", "o", "n", "t", "r", "o", "l">>, <<"I", "n", "_", "C", "o", "n", "t", "r", "o", "l">>,
     <<"h", "a", "s", " ", "i", "n", "i", "t", "i", "a", "t", "i", "v", "e">>, <<"o", "u", "t", " ", "o", "f", " ", "c", "o", "m", "b", "a", "t">>, <<"i", "n", " ", "c", "o", "n", "t", "r", "o", "l", ",", " ", "b", "a", "d", " ", "s", "p", "o", "t">>,
     <<"n", "o", " ", "i", "n", "i", "t", "i", "a", "t", "i", "v", "e", ",", " ", "i", "n", " ", "c", "o", "n", "t", "r", "o", "l">>, <<"b", "a", "d", " ", "s", "p", "o", "t", ",", " ", "n", "o", " ", "i", "n", "i", "t", "i", "a", "t", "i", "v", "e">>, <<"b", "a", "d", "s", "p", "o", "t">>, <<"x">>, <<>>}

quotedAttribute(name, w) ==
    IF w = <<>> THEN <<>> ELSE <<" ">> \o name \o <<"=", "\"">> \o w[1] \o <<"\"">>

initiativeLine(a) ==
    a.keyword
    \o (IF a.from = <<>> /\ a.to = <<>> THEN <<" ", "r", "o", "u", "n", "d", "=", "1">> ELSE <<>>)
    \o quotedAttribute(<<"f", "r", "o", "m">>, a.from) \o quotedAttribute(<<"t", "o">>, a.to)

InitInitiativeBlock ==
    /\ fn = ""
    /\ arg \in [keyword : {<<"i", "n", "i", "t", "i", "a", "t", "i", "v", "e">>, <<"p", "o", "s", "i", "t", "i", "o", "n">>},
                from : Written(InitValues), to : Written(InitValues)]
    /\ ret = <<>>

CallParseInitiativeBlock ==
    /\ fn = ""
    /\ fn' = "parseIronVaultBlock"
    /\ ret' = parseIronVaultBlock(initiativeLine(arg))
    /\ UNCHANGED arg

NextInitiativeBlock == CallParseInitiativeBlock

SpecInitiativeBlock == InitInitiativeBlock /\ [][NextInitiativeBlock]_vars

\* the class and the label of the from or to cell
sideClass(html, side) == html[indexOf(html, side) + 1]

sideLabel(html, side) == html[indexOf(html, side) + 3]

\* s holds a, any one character, then b
phrase(s, a, b) ==
    \E i \in 1..(Len(s) - Len(a) - Len(b)) :
        /\ SubSeq(s, i, i + Len(a) - 1) = a
        /\ SubSeq(s, i + Len(a) + 1, i + Len(a) + Len(b)) = b

\* the label of a value, by the priority bad spot, no initiative, in control,
\* initiative, default
labelOf(value) ==
    LET s == toLowerCase(value)
    IN  IF phrase(s, <<"b", "a", "d">>, <<"s", "p", "o", "t">>) THEN "In a bad spot"
        ELSE IF phrase(s, <<"n", "o">>, <<"i", "n", "i", "t", "i", "a", "t", "i", "v", "e">>) THEN "No initiative"
        ELSE IF phrase(s, <<"i", "n">>, <<"c", "o", "n", "t", "r", "o", "l">>) THEN "In control"
        ELSE IF includes(s, <<"i", "n", "i", "t", "i", "a", "t", "i", "v", "e">>) THEN "Has initiative"
        ELSE "Out of combat"

agree(cssClass, label) ==
    /\ label \in {"In a bad spot", "No initiative"} <=> cssClass = "no-initiative"
    /\ label \in {"In control", "Has initiative"} <=> cssClass = "has-initiative"
    /\ label = "Out of combat" <=> cssClass = "out-of-combat"

\* C20: from and to are classified each from its own value; for each the label
\* is chosen by the priority bad spot, no initiative, in control, initiative,
\* default, the class agrees with the label, and a value that is absent is
\* classified as out-of-combat.
ClassAndLabelAgree ==
    fn = "parseIronVaultBlock" =>
        /\ agree(sideClass(ret, "from "), sideLabel(ret, "from "))
        /\ agree(sideClass(ret, "to "), sideLabel(ret, "to "))
        /\ sideLabel(ret, "from ") =
              IF arg.from = <<>> THEN "Out of combat" ELSE labelOf(arg.from[1])
        /\ sideLabel(ret, "to ") =
              IF arg.to = <<>> THEN "Out of combat" ELSE labelOf(arg.to[1])
        /\ arg.from = <<>> => sideClass(ret, "from ") = "out-of-combat"
        /\ arg.to = <<>> => sideClass(ret, "to ") = "out-of-combat"

\* C20 witness: a from value that holds both in control and bad spot was
\* rendered as a bad spot, and the absent to as out of combat
BadSpotOverControlReached ==
    /\ fn = "parseIronVaultBlock"
    /\ arg.from = <<<<"i", "n", " ", "c", "o", "n", "t", "r", "o", "l", ",", " ", "b", "a", "d", " ", "s", "p", "o", "t">>>>
    /\ arg.to = <<>>
    /\ sideClass(ret, "from ") = "no-initiative"
    /\ sideLabel(ret, "from ") = "In a bad spot"
    /\ sideClass(ret, "to ") = "out-of-combat"
    /\ sideLabel(ret, "to ") = "Out of combat"

(***************************************************************************)
(* SpecActor: parseIronVaultBlock on one actor block, its name plain or a  *)
(* wiki link, its body at most MaxBody statements among a detail line, a   *)
(* meter, a move, an oracle group and further actor blocks (one of them    *)
(* ending with an oracle group), the block closed or left without its      *)
(* closing brace.                                                          *)
(***************************************************************************)
MaxBody == 2

BodyPool ==
    {DetailA, MeterLine, MoveText, GroupText(<<OracleOne>>),
     ActorText(<<DetailA>>), ActorText(<<MeterLine, GroupText(<<OracleTwo>>)>>)}

actorHeader(linked) == IF linked THEN <<"a", "c", "t", "o", "r", " ", "n", "a", "m", "e", "=", "\"", "[", "[", "p", "/", "C", ".", "m", "d", "|", "C", "]", "]", "\"", " ", "{">> ELSE <<"a", "c", "t", "o", "r", " ", "n", "a", "m", "e", "=", "\"", "C", "\"", " ", "{">>

actorBlock(a) ==
    join(<<actorHeader(a.linked)>> \o [i \in 1..Len(a.body) |-> <<" ", " ">> \o a.body[i]]
         \o (IF a.closed THEN <<<<"}">>>> ELSE <<>>), <<"\n">>)

InitActor ==
    /\ fn = ""
    /\ arg \in [linked : BOOLEAN, closed : BOOLEAN,
                body : UNION {[1..n -> BodyPool] : n \in 0..MaxBody}]
    /\ ret = <<>>

CallParseActorBlock ==
    /\ fn = ""
    /\ fn' = "parseIronVaultBlock"
    /\ ret' = parseIronVaultBlock(actorBlock(arg))
    /\ UNCHANGED arg

NextActor == CallParseActorBlock

SpecActor == InitActor /\ [][NextActor]_vars

\* the text between the first { and the last } of a block, empty without both
betweenBraces(text) ==
    IF indexOf(text, "{") = 0 \/ lastIndexOf(text, "}") = 0 THEN <<>>
    ELSE SubSeq(text, indexOf(text, "{") + 1, lastIndexOf(text, "}") - 1)

\* the tokens inside the <div> of the one section of an article
sectionBody(html) == SubSeq(html, indexOf(html, "<div>") + 1, Len(html) - 3)

\* an article without its first and its last token
unwrapped(html) == SubSeq(html, 2, Len(html) - 1)

\* C21: the HTML inside the actor's section is what parseIronVaultBlock renders
\* for the text between the block's first { and last }, less the outermost
\* article wrapper only: nested fragments are whole, also an oracle group at the
\* end of the body and a further actor block.
ActorBodyIsInnerParse ==
    fn = "parseIronVaultBlock" =>
        /\ ~threw(ret)
        /\ Head(ret) = ArticleOpen /\ ret[2] = "<section class=\"actor\">"
        /\ SubSeq(ret, Len(ret) - 2, Len(ret)) = <<"</div>", "</section>", ArticleEnd>>
        /\ sectionBody(ret) = unwrapped(parseIronVaultBlock(betweenBraces(actorBlock(arg))))

\* C21 witness: the body of a closed actor ended with an actor whose own body
\* ended with an oracle group, and both closing tags of the group and of the
\* inner section are in the output
NestedGroupKeptReached ==
    /\ fn = "parseIronVaultBlock"
    /\ arg.closed
    /\ arg.body = <<DetailA, ActorText(<<MeterLine, GroupText(<<OracleTwo>>)>>)>>
    /\ count(ret, "<section class=\"actor\">") = 2
    /\ count(ret, GroupOpen) = 1
    /\ count(ret, ArticleEnd) = 2
    /\ SubSeq(sectionBody(ret), Len(sectionBody(ret)) - 2, Len(sectionBody(ret)))
         = <<ArticleEnd, "</div>", "</section>">>

(***************************************************************************)
(* SpecScan: the while loop of parseIronVaultBlock, one iteration at a     *)
(* step, with the recursive calls parseActorBlock makes for actor bodies.  *)
(* arg is the block text of the outermost call; ret is the call stack, one *)
(* frame for each parseIronVaultBlock call in progress:                    *)
(*   text    the content the call received                                 *)
(*   lines   content.trim().split('\n')                                    *)
(*   i       the cursor (1-based)                                          *)
(*   end     the endIndex of the actor block whose body the call is        *)
(*           waiting for, 0 when it is not waiting                         *)
(*   used    for each line, how many times it was dispatched or collected  *)
(*   pushed  the number of fragments pushed to results                     *)
(* The blocks are at most MaxScan statements among one-line statements, an *)
(* unrecognized line, closed and unclosed braced blocks and nested actors. *)
(***************************************************************************)
MaxScan == 2

ScanPool ==
    {DetailA, MeterLine, <<"x">>, <<"-", " ", "a", " ", "}">>, MoveText, GroupText(<<OracleOne>>),
     braced(<<"m", "o", "v", "e", " ", "\"", "N", "\"">>, <<MeterLine>>),
     braced(OracleLine, <<OracleOne>>), ActorText(<<>>), ActorText(<<DetailA>>),
     ActorText(<<ActorText(<<MeterLine>>), DetailA>>),
     <<"a", "c", "t", "o", "r", " ", "}", " ", "x", " ", "{">>,
     <<"a", "c", "t", "o", "r", " ", "n", "a", "m", "e", "=", "\"", "C", "\"", " ", "{">>, <<"m", "o", "v", "e", " ", "\"", "M", "\"", " ", "{">>}

frame(text) ==
    [text   |-> text,
     lines  |-> split(trim(text), "\n"),
     i      |-> 1,
     end    |-> 0,
     used   |-> [k \in 1..Len(split(trim(text), "\n")) |-> 0],
     pushed |-> 0]

top(stack) == stack[Len(stack)]

replaceTop(stack, f) == SubSeq(stack, 1, Len(stack) - 1) \o <<f>>

\* a cursor that stays on the line where the iteration ended
nextIndexStuck(end) == end

\* i++ after an iteration that ended at line end
nextIndex(end) == end + 1

\* the lines from a on, as many as content holds, counted once more
mark(used, a, content) ==
    [k \in 1..Len(used) |->
        IF a <= k /\ k <= a + count(content, "\n") THEN used[k] + 1 ELSE used[k]]

\* a loop that collects the block of a move only
collectsMoveOnly(line) == startsWith(line, Keyword.move)

\* the branches of the loop that call collectBlock and parse the block in place
collects(line) ==
    \/ startsWith(line, Keyword.move)
    \/ startsWith(line, Keyword.oracleGroup)
    \/ startsWith(line, Keyword.oracle) /\ includes(line, <<"{">>)

isActor(line) ==
    /\ ~startsWith(line, Keyword.move) /\ ~startsWith(line, Keyword.oracleGroup)
    /\ ~startsWith(line, Keyword.oracle)
    /\ ~(\E kw \in OneLine \ {Keyword.detail} : startsWith(line, kw))
    /\ startsWith(line, Keyword.actor)

\* the text parseActorBlock hands to parseIronVaultBlock, empty when it makes no call
actorInner(content) ==
    IF indexOf(content, "{") = 0 \/ lastIndexOf(content, "}") = 0 THEN <<>>
    ELSE trim(substring(content, indexOf(content, "{"), lastIndexOf(content, "}") - 1))

running(stack) ==
    /\ stack # <<>>
    /\ top(stack).end = 0
    /\ top(stack).i <= Len(top(stack).lines)

currentLine(stack) == trim(top(stack).lines[top(stack).i])

currentBlock(stack) == collectBlock(top(stack).lines, top(stack).i)

InitScan ==
    /\ fn = ""
    /\ arg \in {join(s, <<"\n">>) : s \in UNION {[1..n -> ScanPool] : n \in 0..MaxScan}}
    /\ ret = <<>>

\* parseIronVaultBlock(content) is entered
ScanCall ==
    /\ fn = ""
    /\ fn' = "call"
    /\ ret' = <<frame(arg)>>
    /\ UNCHANGED arg

\* an iteration on a one-line statement, an oracle without a brace, or a line
\* no keyword begins
ScanLine ==
    /\ fn # "" /\ running(ret)
    /\ ~collects(currentLine(ret)) /\ ~isActor(currentLine(ret))
    /\ fn' = "line"
    /\ ret' = replaceTop(ret,
                [top(ret) EXCEPT
                   !.i = nextIndex(top(ret).i),
                   !.used = mark(top(ret).used, top(ret).i, <<>>),
                   !.pushed = IF recognized(currentLine(ret)) THEN @ + 1 ELSE @])
    /\ UNCHANGED arg

\* an iteration on a move, an oracle group or an oracle with a brace
ScanCollect ==
    /\ fn # "" /\ running(ret)
    /\ collects(currentLine(ret))
    /\ fn' = "collect"
    /\ ret' = replaceTop(ret,
                [top(ret) EXCEPT
                   !.i = nextIndex(currentBlock(ret).endIndex),
                   !.used = mark(top(ret).used, top(ret).i, currentBlock(ret).content),
                   !.pushed = @ + 1])
    /\ UNCHANGED arg

\* an iteration on an actor: the block is collected and, when it has a body, the
\* body is parsed by a new call before the cursor moves
ScanActor ==
    /\ fn # "" /\ running(ret)
    /\ isActor(currentLine(ret))
    /\ fn' = "actor"
    /\ ret' = IF actorInner(currentBlock(ret).content) = <<>>
              THEN replaceTop(ret,
                     [top(ret) EXCEPT
                        !.i = nextIndex(currentBlock(ret).endIndex),
                        !.used = mark(top(ret).used, top(ret).i, currentBlock(ret).content),
                        !.pushed = @ + 1])
              ELSE replaceTop(ret,
                     [top(ret) EXCEPT
                        !.end = currentBlock(ret).endIndex,
                        !.used = mark(top(ret).used, top(ret).i, currentBlock(ret).content),
                        !.pushed = @ + 1])
                   \o <<frame(actorInner(currentBlock(ret).content))>>
    /\ UNCHANGED arg

\* the call for an actor body returns and the caller's iteration ends
ScanReturn ==
    /\ fn # "" /\ Len(ret) > 1
    /\ top(ret).end = 0 /\ top(ret).i > Len(top(ret).lines)
    /\ fn' = "return"
    /\ ret' = replaceTop(SubSeq(ret, 1, Len(ret) - 1),
                [ret[Len(ret) - 1] EXCEPT !.i = nextIndex(ret[Len(ret) - 1].end), !.end = 0])
    /\ UNCHANGED arg

\* the outermost call returns
ScanFinish ==
    /\ fn \notin {"", "done"} /\ Len(ret) = 1
    /\ top(ret).end = 0 /\ top(ret).i > Len(top(ret).lines)
    /\ fn' = "done"
    /\ UNCHANGED <<arg, ret>>

NextScan == ScanCall \/ ScanLine \/ ScanCollect \/ ScanActor \/ ScanReturn \/ ScanFinish

SpecScan == InitScan /\ [][NextScan]_vars

\* the characters and line ends a call has still to scan: those from its cursor
\* on, or from the end of the block it waits for
RECURSIVE ahead(_, _)
ahead(lines, k) ==
    IF k > Len(lines) THEN 0 ELSE Len(lines[k]) + 2 + ahead(lines, k + 1)

RECURSIVE pending(_)
pending(stack) ==
    IF stack = <<>> THEN 0
    ELSE ahead(top(stack).lines, IF top(stack).end = 0 THEN top(stack).i ELSE top(stack).end + 1)
         + pending(SubSeq(stack, 1, Len(stack) - 1))

\* what is left to do: twice the text still to scan, a return for every open
\* call, and the last return
scanMeasure(f, stack) == IF f = "done" THEN 0 ELSE 2 * pending(stack) + Len(stack) + 1

\* one step of the scan moves the cursor of the call that iterates forward, to
\* at most one past the last line; a collected block ends between its first
\* line and the last line; a call for an actor body gets a text shorter than
\* the block, which is no longer than the text of the caller; and what is left
\* to do gets less
scanProgress ==
    /\ fn' \in {"line", "collect"} =>
         /\ top(ret').i > top(ret).i
         /\ top(ret').i <= Len(top(ret).lines) + 1
    /\ fn' \in {"collect", "actor"} =>
         /\ currentBlock(ret).endIndex >= top(ret).i
         /\ currentBlock(ret).endIndex <= Len(top(ret).lines)
    /\ (fn' = "actor" /\ Len(ret') = Len(ret)) => top(ret').i > top(ret).i
    /\ (fn' = "actor" /\ Len(ret') > Len(ret)) =>
         /\ Len(top(ret').text) < Len(currentBlock(ret).content)
         /\ Len(currentBlock(ret).content) <= Len(top(ret).text)
    /\ fn' = "return" => top(ret').i > ret[Len(ret')].i
    /\ fn # "" => scanMeasure(fn', ret') < scanMeasure(fn, ret)

\* a scan that has not returned has a step to take: an iteration of the call on
\* top, or the return of a call whose cursor is past its last line
scanCanStep ==
    \/ fn = ""
    \/ fn # "" /\ running(ret)
    \/ /\ fn # "" /\ ret # <<>>
       /\ top(ret).end = 0 /\ top(ret).i > Len(top(ret).lines)
       /\ \A k \in 1..(Len(ret) - 1) : ret[k].end >= ret[k].i

\* C22: parseIronVaultBlock terminates on every input: every iteration moves the
\* cursor forward, collectBlock's endIndex is never below its start nor beyond
\* the last line, every call for an actor body gets a strictly shorter text,
\* so that what is left to scan gets less with every step and a scan that has
\* not returned always has a step to take, for nested and for unbalanced blocks.
ScanTerminates == [](fn # "done" => scanCanStep) /\ [][scanProgress]_vars

\* C22 witness: the scan of an actor that holds an actor was two calls deep
\* below the outermost one
ScanNestedReached ==
    /\ Len(ret) = 3
    /\ Len(ret[3].text) < Len(ret[2].text)
    /\ Len(ret[2].text) < Len(ret[1].text)


\* the line a call has come to: its cursor, or the line after the block it waits for
cursor(f) == IF f.end = 0 THEN f.i ELSE f.end + 1

\* the lines of a call that a body holds: those collected together with a header
inBody(f, k) ==
    \E a \in 1..(k - 1) :
        /\ collects(trim(f.lines[a])) \/ isActor(trim(f.lines[a]))
        /\ k <= collectBlock(f.lines, a).endIndex
        /\ \A b \in 1..(a - 1) :
              ~((collects(trim(f.lines[b])) \/ isActor(trim(f.lines[b])))
                /\ a <= collectBlock(f.lines, b).endIndex)

\* C23: in one scan every line is consumed exactly once: at every point the
\* lines before the cursor have been dispatched or collected once and the lines
\* from the cursor on not at all, in every call; and when the outermost call
\* returns it has pushed one fragment per recognized line outside every body,
\* as many as the fragments parseIronVaultBlock joins, so a line inside a body
\* has produced no fragment of its own.
LinesConsumedOnce ==
    /\ \A d \in 1..Len(ret) : \A k \in 1..Len(ret[d].lines) :
          ret[d].used[k] = IF k < cursor(ret[d]) THEN 1 ELSE 0
    /\ fn = "done" =>
          /\ ret[1].pushed = Len(results(ret[1].lines, 1))
          /\ ret[1].pushed =
                Cardinality({k \in 1..Len(ret[1].lines) :
                               recognized(trim(ret[1].lines[k])) /\ ~inBody(ret[1], k)})

\* C23 witness: a scan has returned from a text in which a move holds a meter
\* line and a detail line follows the move
BodyLineNotDispatchedReached ==
    /\ fn = "done"
    /\ Len(ret[1].lines) = 4
    /\ startsWith(ret[1].lines[1], Keyword.move)
    /\ startsWith(trim(ret[1].lines[2]), Keyword.meter)
    /\ startsWith(ret[1].lines[4], Keyword.detail)
    /\ ret[1].pushed = 2
(***************************************************************************)
(* SpecMoveBody: parseIronVaultBlock on one move block whose body is at    *)
(* most MaxMoveBody statements among two roll clauses the pattern of       *)
(* parseMoveBlock matches, one it does not match, and a meter, an add, a   *)
(* reroll, an oracle, a braced oracle and detail lines (one of them        *)
(* opening a brace), in every order; next to it the same move with nothing *)
(* but the first roll clause the pattern matches.                          *)
(***************************************************************************)
MaxMoveBody == 2

RollOther == <<"r", "o", "l", "l", " ", "\"", "w", "i", "t", "s", "\"", " ", "a", "c", "t", "i", "o", "n", "=", "1", " ", "a", "d", "d", "s", "=", "1", " ", "s", "t", "a", "t", "=", "1", " ", "v", "s", "1", "=", "5", " ", "v", "s", "2", "=", "5">>

RollSigned == <<"r", "o", "l", "l", " ", "\"", "i", "r", "o", "n", "\"", " ", "a", "c", "t", "i", "o", "n", "=", "3", " ", "a", "d", "d", "s", "=", "-", "1", " ", "s", "t", "a", "t", "=", "2", " ", "v", "s", "1", "=", "1", " ", "v", "s", "2", "=", "2">>

MatchingRolls == {RollLine, RollOther}

MoveBodyPool ==
    MatchingRolls \cup
    {RollSigned, MeterLine, <<"a", "d", "d", " ", "2", " ", "\"", "h", "e", "l", "p", "\"">>, <<"r", "e", "r", "o", "l", "l", " ", "a", "c", "t", "i", "o", "n", "=", "2">>, OracleOne,
     braced(OracleLine, <<OracleTwo>>), DetailA, <<"-", " ", "a", " ", "{">>}

MoveNames == {<<"m", "o", "v", "e", " ", "\"", "[", "S", "t", "r", "i", "k", "e", "]", "(", "d", ":", "s", ")", "\"">>, <<"m", "o", "v", "e", " ", "\"", "A", "<", "B", "\"">>}

\* the body with nothing but its first roll clause the pattern matches
firstRollOnly(body) ==
    IF \E k \in 1..Len(body) : body[k] \in MatchingRolls
    THEN <<body[least({k \in 1..Len(body) : body[k] \in MatchingRolls})]>>
    ELSE <<>>

InitMoveBody ==
    /\ fn = ""
    /\ arg \in [name : MoveNames, body : UNION {[1..n -> MoveBodyPool] : n \in 0..MaxMoveBody}]
    /\ ret = [full |-> <<>>, bare |-> <<>>]

CallParseMoveBodies ==
    /\ fn = ""
    /\ fn' = "parseIronVaultBlock"
    /\ ret' = [full |-> parseIronVaultBlock(braced(arg.name, arg.body)),
               bare |-> parseIronVaultBlock(braced(arg.name, firstRollOnly(arg.body)))]
    /\ UNCHANGED arg

NextMoveBody == CallParseMoveBodies

SpecMoveBody == InitMoveBody /\ [][NextMoveBody]_vars

\* C24: the output of a move block is that of the same move with nothing in its
\* braces but the first roll clause the pattern matches (or with empty braces
\* when there is none): no other statement of the body changes it.
MoveOutputFromNameAndFirstRoll == fn = "parseIronVaultBlock" => ret.full = ret.bare

\* C24 witness: a move with a meter before its roll clause has been rendered,
\* with a roll
MoveWithOtherStatementsReached ==
    /\ fn = "parseIronVaultBlock"
    /\ arg.body = <<MeterLine, RollLine>>
    /\ hasToken(ret.full, "<dt>Roll</dt>")

(***************************************************************************)
(* SpecProgressSigned: parseIronVaultBlock on one progress line with a     *)
(* quoted rank, steps and from of either sign, zero included.              *)
(***************************************************************************)
InitProgressSigned ==
    /\ fn = ""
    /\ arg \in [rank : RankNames, quoted : {TRUE},
                steps : (-MaxSteps)..MaxSteps, from : (-MaxFrom)..MaxFrom]
    /\ ret = <<>>

SpecProgressSigned == InitProgressSigned /\ [][NextProgress]_vars

\* the number a cell shows
cellNumber(html, cls) == parseInt(cell(html, cls)).n

\* C25: for every from and steps of either sign and every rank the cells satisfy
\* from-boxes*4 + from-ticks = from and to-boxes*4 + to-ticks = from + T*steps,
\* T being the table value of the rank, with both tick cells in 0..3; with
\* steps=0 the to pair therefore equals the from pair.
ProgressPairsExact ==
    fn = "parseIronVaultBlock" =>
        /\ cellNumber(ret, "from-boxes") * 4 + cellNumber(ret, "from-ticks") = arg.from
        /\ cellNumber(ret, "to-boxes") * 4 + cellNumber(ret, "to-ticks")
              = arg.from + ticksOfRank(arg.rank) * arg.steps
        /\ cellNumber(ret, "from-ticks") \in 0..3
        /\ cellNumber(ret, "to-ticks") \in 0..3

(***************************************************************************)
(* The link fixer (docs/site-lib/scripts/iron-vault-links.js).  The page   *)
(* is a sequence of elements, each a span or a link with its class, its    *)
(* title, its data-track-path, data-entity-path and data-iv-processed      *)
(* attributes, its href and the index of its parent among the elements (0  *)
(* for an element that lies in no other).  An attribute is <<>> when it is *)
(* not written and <<value>> when it is.                                   *)
(***************************************************************************)
MaxNodes == 2

span(className, track, entity) ==
    [tag |-> "span", className |-> className, title |-> <<"t">>, track |-> track,
     entity |-> entity, href |-> <<>>, processed |-> FALSE, parent |-> 0]

SpanPool ==
    {span("iv-track", <<<<"P", "/", "M", "y", " ", "T", ".", "m", "d">>>>, <<>>),
     span("iv-track", <<<<>>>>, <<>>),
     span("iv-entity", <<>>, <<<<"P", "/", "E", ".", "m", "d">>>>),
     span("iv-entity", <<>>, <<<<"K", ".", "m", "d">>>>),
     span("iv-entity", <<>>, <<<<"U", ".", "m", "d">>>>)}

\* searchIndex before a fetch has succeeded
NullIndex == [loaded |-> FALSE, documentIds |-> <<>>]

\* the index the server holds
ServerIndex == [loaded |-> TRUE, documentIds |-> <<<<"l", "o", "r", "e", "/", "k", ".", "h", "t", "m", "l">>>>]

\* s.replace(/\.md$/, '.html')
mdToHtml(s) ==
    IF endsWith(s, <<".", "m", "d">>) THEN SubSeq(s, 1, Len(s) - 3) \o <<".", "h", "t", "m", "l">> ELSE s

obsidianToHtmlPath(obsidianPath) ==
    removeApostrophes(replaceAll(mdToHtml(toLowerCase(obsidianPath)), " ", <<"-">>))

\* s.split('/').pop()
afterLastSlash(s) == SubSeq(s, lastIndexOf(s, "/") + 1, Len(s))

\* s.replace('.html', ''): the first occurrence only
withoutHtml(s) ==
    IF includes(s, <<".", "h", "t", "m", "l">>)
    THEN LET i == least({k \in 1..(Len(s) - 4) : SubSeq(s, k, k + 4) = <<".", "h", "t", "m", "l">>})
         IN  SubSeq(s, 1, i - 1) \o SubSeq(s, i + 5, Len(s))
    ELSE s

\* the path of the first document whose file name is that of filename, <<>> for null
findPageByFilename(searchIndex, filename) ==
    LET searchName == replaceAll(stripMd(toLowerCase(afterLastSlash(filename))), " ", <<"-">>)
        ids        == searchIndex.documentIds
        hits       == {id \in 1..Len(ids) : withoutHtml(afterLastSlash(ids[id])) = searchName}
    IN  IF ~searchIndex.loaded \/ ids = <<>> \/ hits = {} THEN <<>>
        ELSE <<ids[least(hits)]>>

\* the paths the spans of the pool carry, and what obsidianToHtmlPath and
\* findPageByFilename make of each of them
PoolPaths == UNION {{s.track[i] : i \in 1..Len(s.track)} \cup {s.entity[i] : i \in 1..Len(s.entity)} : s \in SpanPool}

HtmlPath == [p \in PoolPaths |-> obsidianToHtmlPath(p)]

PageByFilename ==
    [searchIndex \in {NullIndex, ServerIndex} |->
        [p \in PoolPaths |-> findPageByFilename(searchIndex, p)]]

\* the elements el lies in
ancestors(dom, k) ==
    LET anc[n \in 0..Len(dom)] ==
            IF n = 0 \/ dom[n].parent = 0 THEN {} ELSE {dom[n].parent} \cup anc[dom[n].parent]
    IN  anc[k]

\* el.closest('a[data-iv-processed]') for a span el
closestProcessed(dom, k) ==
    \E j \in ancestors(dom, k) : dom[j].tag = "a" /\ dom[j].processed

\* the link convertToLink puts in the place of el: the class, the content and
\* the data attributes of el, the href and data-iv-processed
convertToLink(el, href) ==
    [tag |-> "a", className |-> el.className, title |-> <<>>, track |-> el.track,
     entity |-> el.entity, href |-> <<href>>, processed |-> TRUE, parent |-> el.parent]

\* the href processTrackPaths gives to a span, <<>> when it leaves the span alone
trackHref(el) ==
    IF el.track = <<>> \/ el.track[1] = <<>> THEN <<>>
    ELSE <<HtmlPath[el.track[1]]>>

\* the href processEntityPaths gives to a span, <<>> when it leaves the span alone
entityHref(searchIndex, el) ==
    IF el.entity = <<>> \/ el.entity[1] = <<>> THEN <<>>
    ELSE IF includes(el.entity[1], <<"/">>) THEN <<HtmlPath[el.entity[1]]>>
    ELSE PageByFilename[searchIndex][el.entity[1]]

\* one querySelectorAll(...).forEach over the page: the list is taken before the
\* first conversion, so a span in a span converted earlier in the pass is
\* converted outside the page, and the copy of it in the new link stays a span
forEachSpan(dom, Href(_)) ==
    [k \in 1..Len(dom) |->
        IF /\ dom[k].tag = "span" /\ Href(dom[k]) # <<>>
           /\ ~closestProcessed(dom, k)
           /\ \A j \in ancestors(dom, k) : ~(dom[j].tag = "span" /\ Href(dom[j]) # <<>>)
        THEN convertToLink(dom[k], Href(dom[k])[1])
        ELSE dom[k]]

processTrackPaths(dom) == forEachSpan(dom, trackHref)

processEntityPaths(dom, searchIndex) == forEachSpan(dom, LAMBDA el : entityHref(searchIndex, el))

(***************************************************************************)
(* SpecLinks: the link fixer on a page that has, or has not, the element   *)
(* #center-content.  ret holds the two variables of the script, the page,  *)
(* the processLinks calls suspended at their await (each with its caller   *)
(* and whether it waits for the fetch), the timers of init, of the         *)
(* popstate listener and of the debounced observer callback, the observer, *)
(* and in lost whether a call the observer asked for has left at once.     *)
(* Spans are added to the page at any time, at most MaxNodes of them, each *)
(* in the page itself or in an element that is there; popstate             *)
(* events come at any time; a fetch ends with an OK response, another      *)
(* response or a rejection.  A step is one task of the event loop together *)
(* with the microtasks it leaves.                                          *)
(***************************************************************************)
MaxCalls == 2

Outcomes == {"ok", "not ok", "rejected"}

\* a processLinks that leaves at once, and for good
neverReturnsAtOnce(isProcessing) == FALSE

\* if (isProcessing) return;
returnsAtOnce(isProcessing) == isProcessing

\* processLinks up to its await: the flag is set and loadSearchIndex either
\* returns because the index is there or issues the fetch
processLinks(state, caller) ==
    IF returnsAtOnce(state.isProcessing) THEN state
    ELSE [state EXCEPT !.isProcessing = TRUE,
                       !.calls = Append(@, [caller |-> caller, fetching |-> ~state.searchIndex.loaded])]

\* a loadSearchIndex whose rejected fetch is thrown on
loadSearchIndexNoCatch(searchIndex, outcome) ==
    [searchIndex |-> IF outcome = "ok" THEN ServerIndex ELSE searchIndex,
     thrown      |-> outcome = "rejected"]

\* loadSearchIndex from the end of its fetch on; the outcome is "loaded" when
\* it had returned without a fetch
loadSearchIndex(searchIndex, outcome) ==
    [searchIndex |-> IF outcome = "ok" THEN ServerIndex ELSE searchIndex,
     thrown      |-> FALSE]

\* an observer callback that never asks for a run
neverProcess(node) == FALSE

\* the test of the observer callback on an added node that is a span
shouldProcess(node) == node.tag = "span" /\ (node.track # <<>> \/ node.entity # <<>>)

\* the same test on the links a run has put in the page: a link holds a span
\* that carries one of the two attributes
holdsSpan(old, page) ==
    \E k \in 1..Len(page) :
        /\ old[k].tag = "span" /\ page[k].tag = "a"
        /\ \E d \in 1..Len(page) : k \in ancestors(page, d) /\ shouldProcess(page[d])

setupObserver(hasCenter) == IF hasCenter THEN "center" ELSE "none"

without(calls, c) == SubSeq(calls, 1, c - 1) \o SubSeq(calls, c + 1, Len(calls))

\* processLinks from its await on, loadSearchIndex having ended as loaded says;
\* init, when the call is its own, goes on to setupObserver
resume(state, c, loaded, hasCenter) ==
    IF loaded.thrown
    THEN [state EXCEPT !.calls = without(@, c), !.thrown = TRUE,
                       !.init = IF state.calls[c].caller = "init" THEN "failed" ELSE @]
    ELSE [state EXCEPT
            !.searchIndex = loaded.searchIndex,
            !.dom = processEntityPaths(processTrackPaths(@), loaded.searchIndex),
            !.isProcessing = FALSE,
            !.calls = without(@, c),
            !.init = IF state.calls[c].caller = "init" THEN "done" ELSE @,
            !.observer = IF state.calls[c].caller = "init" THEN setupObserver(hasCenter) ELSE @,
            !.debounce = \/ @
                         \/ /\ state.observer = "center"
                            /\ holdsSpan(state.dom,
                                 processEntityPaths(processTrackPaths(state.dom), loaded.searchIndex))]

InitLinks ==
    /\ fn = ""
    /\ arg \in [hasCenter : BOOLEAN]
    /\ ret = [isProcessing |-> FALSE, searchIndex |-> NullIndex, dom |-> <<>>, calls |-> <<>>,
              init |-> "timer", popTimer |-> FALSE, debounce |-> FALSE, observer |-> "none",
              thrown |-> FALSE, lost |-> FALSE]

\* setTimeout(init, 200) fires: init calls processLinks and, when that returns
\* at once, setupObserver
InitTimer ==
    /\ ret.init = "timer" /\ Len(ret.calls) < MaxCalls
    /\ fn' = "init"
    /\ ret' = IF returnsAtOnce(ret.isProcessing)
              THEN [ret EXCEPT !.init = "done", !.observer = setupObserver(arg.hasCenter)]
              ELSE [processLinks(ret, "init") EXCEPT !.init = "awaiting"]
    /\ UNCHANGED arg

\* a popstate event: the listener sets its timer
Popstate ==
    /\ ~ret.popTimer
    /\ fn' = "popstate"
    /\ ret' = [ret EXCEPT !.popTimer = TRUE]
    /\ UNCHANGED arg

\* the timer of the popstate listener fires
PopTimer ==
    /\ ret.popTimer /\ Len(ret.calls) < MaxCalls
    /\ fn' = "popstate timer"
    /\ ret' = [processLinks(ret, "popstate") EXCEPT !.popTimer = FALSE]
    /\ UNCHANGED arg

\* the page gets a span; the observer, when it is there, sees it and sets the
\* timer of debouncedProcessLinks
AddSpan ==
    /\ Len(ret.dom) < MaxNodes
    /\ \E s \in SpanPool, p \in 0..Len(ret.dom) :
          ret' = [ret EXCEPT
                    !.dom = Append(@, [s EXCEPT !.parent = p]),
                    !.debounce = @ \/ (ret.observer = "center" /\ shouldProcess(s))]
    /\ fn' = "span added"
    /\ UNCHANGED arg

\* the timer of debouncedProcessLinks fires
DebounceTimer ==
    /\ ret.debounce /\ Len(ret.calls) < MaxCalls
    /\ fn' = "observer timer"
    /\ ret' = [processLinks(ret, "observer") EXCEPT
                 !.debounce = FALSE,
                 !.lost = @ \/ returnsAtOnce(ret.isProcessing)]
    /\ UNCHANGED arg

\* the fetch of a suspended call ends and the call runs to its end
FetchSettles ==
    \E c \in 1..Len(ret.calls), outcome \in Outcomes :
        /\ ret.calls[c].fetching
        /\ fn' = outcome
        /\ ret' = resume(ret, c, loadSearchIndex(ret.searchIndex, outcome), arg.hasCenter)
        /\ UNCHANGED arg

\* a call that found the index loaded runs to its end
Resume ==
    \E c \in 1..Len(ret.calls) :
        /\ ~ret.calls[c].fetching
        /\ fn' = "loaded"
        /\ ret' = resume(ret, c, loadSearchIndex(ret.searchIndex, "loaded"), arg.hasCenter)
        /\ UNCHANGED arg

NextLinks ==
    InitTimer \/ Popstate \/ PopTimer \/ AddSpan \/ DebounceTimer \/ FetchSettles \/ Resume

SpecLinks == InitLinks /\ [][NextLinks]_vars

\* every timer fires and every fetch ends
SpecLinksFair ==
    /\ SpecLinks
    /\ WF_vars(InitTimer) /\ WF_vars(PopTimer) /\ WF_vars(DebounceTimer)
    /\ WF_vars(FetchSettles) /\ WF_vars(Resume)

\* a step in which processLinks is called while the flag is set
calledWhileSet == ret.isProcessing /\ fn' \in {"init", "popstate timer", "observer timer"}

\* C26: the flag gives mutual exclusion without deadlock: at most one call is
\* between setting and clearing the flag, and the flag is set exactly while one
\* is; a call made while the flag is set leaves the page, the index and the
\* suspended call as they are; no call ends in an exception; and a set flag is
\* cleared again, whatever the outcome of the fetch.
FlagIsMutexWithoutDeadlock ==
    /\ [](/\ Len(ret.calls) <= 1
          /\ ret.isProcessing <=> Len(ret.calls) = 1
          /\ ~ret.thrown)
    /\ [][calledWhileSet =>
            /\ ret'.dom = ret.dom /\ ret'.calls = ret.calls
            /\ ret'.searchIndex = ret.searchIndex /\ ret'.isProcessing]_vars
    /\ (ret.isProcessing ~> ~ret.isProcessing)

\* C26 witness: the call of the popstate timer has come while the call of init
\* waited for the fetch, and has left at once
DroppedWhileAwaitingReached ==
    /\ fn = "popstate timer"
    /\ ret.isProcessing /\ Len(ret.calls) = 1
    /\ ret.calls[1].caller = "init" /\ ret.calls[1].fetching

\* a span of the page itself whose path processLinks converts without the index
eligible(dom, k) ==
    /\ k <= Len(dom) /\ dom[k].tag = "span" /\ dom[k].parent = 0
    /\ \/ trackHref(dom[k]) # <<>>
       \/ dom[k].entity # <<>> /\ includes(dom[k].entity[1], <<"/">>)

isLink(dom, k) == k <= Len(dom) /\ dom[k].tag = "a"

\* C27 as stated: with #center-content, every span with data-track-path and
\* every span whose data-entity-path holds a / is a link in the end, whenever
\* it came.
EverySpanBecomesLink ==
    \A k \in 1..MaxNodes :
        (/\ arg.hasCenter /\ k <= Len(ret.dom) /\ ret.dom[k].tag = "span"
         /\ \/ ret.dom[k].track # <<>>
            \/ ret.dom[k].entity # <<>> /\ includes(ret.dom[k].entity[1], <<"/">>))
        ~> isLink(ret.dom, k)

\* C27: with #center-content, every span of the page itself whose
\* data-track-path is not empty or whose data-entity-path holds a / is a link in
\* the end, whenever it came: before init, while a call was suspended, or when
\* the call its arrival asked for left at once.
EligibleSpanBecomesLink ==
    \A k \in 1..MaxNodes : (arg.hasCenter /\ eligible(ret.dom, k)) ~> isLink(ret.dom, k)

\* C27 witness: the call the observer asked for when a span came has left at
\* once, and the span is a link as is the one that was there before
LateSpanLinkedReached ==
    /\ arg.hasCenter /\ ret.lost /\ Len(ret.dom) = 2
    /\ \A k \in 1..2 : isLink(ret.dom, k) /\ ret.dom[k].parent = 0

\* no link lies in a processed link
noLinkInLink(dom) ==
    \A k \in 1..Len(dom) : dom[k].tag = "a" => ~closestProcessed(dom, k)

\* a link stays the link it is
linksKept ==
    \A k \in 1..Len(ret.dom) : ret.dom[k].tag = "a" => ret'.dom[k] = ret.dom[k]

\* a span that becomes a link becomes one with data-iv-processed, the class and
\* the data attributes of the span
linksCarry ==
    \A k \in 1..Len(ret.dom) :
        (ret.dom[k].tag = "span" /\ ret'.dom[k].tag = "a") =>
            /\ ret'.dom[k].processed
            /\ ret'.dom[k].className = ret.dom[k].className
            /\ ret'.dom[k].track = ret.dom[k].track
            /\ ret'.dom[k].entity = ret.dom[k].entity

\* C28: conversion is idempotent: a link is never converted again and further
\* runs leave it as it is, a new link carries data-iv-processed, the class and
\* the data attributes of its span, and no link lies in a processed link.
ConversionIdempotent ==
    /\ [](noLinkInLink(ret.dom))
    /\ [][linksKept /\ linksCarry]_vars

\* C29: without #center-content setupObserver observes the body, so that once
\* init has run an observer is there.
ObserverFallsBackToBody ==
    (ret.init = "done" /\ ~arg.hasCenter) => ret.observer = "body"

\* a step in which processLinks is called and goes on to loadSearchIndex
callStarts == Len(ret'.calls) > Len(ret.calls)

\* C30: a fetch that fails or is not OK is contained: no call ends in an
\* exception; in the step in which such a fetch ends searchIndex stays null,
\* the flag is cleared, every eligible span becomes a link and every entity
\* span with a bare file name stays as it is; a call that starts while
\* searchIndex is null issues the fetch again; and once searchIndex is loaded
\* it stays as it is and no call issues a fetch.
FailedFetchContained ==
    /\ [](~ret.thrown)
    /\ [][/\ fn' \in {"not ok", "rejected"} =>
               /\ ret'.searchIndex = NullIndex /\ ~ret'.isProcessing
               /\ \A k \in 1..Len(ret.dom) :
                     /\ eligible(ret.dom, k) => isLink(ret'.dom, k)
                     /\ (ret.dom[k].entity # <<>> /\ ~includes(ret.dom[k].entity[1], <<"/">>))
                           => ret'.dom[k] = ret.dom[k]
          /\ (callStarts /\ ~ret.searchIndex.loaded) => ret'.calls[Len(ret'.calls)].fetching
          /\ ret.searchIndex.loaded =>
               /\ ret'.searchIndex = ret.searchIndex
               /\ fn' \notin Outcomes
               /\ callStarts => ~ret'.calls[Len(ret'.calls)].fetching]_vars

\* C30 witness: a fetch has been rejected and the run has made a link of a
\* track span and left the span with a file name the index knows
RejectedFetchRunReached ==
    /\ fn = "rejected" /\ Len(ret.dom) = 2
    /\ ret.dom[1].tag = "a" /\ ret.dom[1].track # <<>>
    /\ ret.dom[2].tag = "span" /\ ret.dom[2].entity = <<<<"K", ".", "m", "d">>>>
    /\ ~ret.searchIndex.loaded

====
